---- MODULE Spec2Model ----
(***************************************************************************)
(* Hoyo2VRC: a model of the skeleton operations (functions/armature.py),   *)
(* of the legacy resolver (Tools/armature_utils.py, Tools/convertHI3PC.py) *)
(* and of the conversion pipelines (functions/converter.py).               *)
(*                                                                         *)
(* Coordinates are fixed-point integers, one unit = 0.0001 scene units,    *)
(* so 0.01 is 100, 0.05 is 500, 0.075 is 750.  A ratio is a percentage     *)
(* (0.33 is 33, 0.5 is 50).  A vector is a tuple <<x, y, z>>; the source's *)
(* axis indices 0, 1, 2 are the tuple indices 1, 2, 3.                     *)
(*                                                                         *)
(* A skeleton is a function from joint identities (the host's EditBone     *)
(* objects, numbered in edit_bones order) to records; a joint's parent is  *)
(* an identity or None.                                                    *)
(***************************************************************************)
EXTENDS Integers, Sequences, FiniteSets, TLC

VARIABLES
    bones,        \* armature.data.edit_bones
    mode,         \* the host's mode: "OBJECT", "EDIT" or "POSE"
    active,       \* type of context.active_object: "ARMATURE", "MESH", "NONE"
    hostChecks,   \* whether the host's parent setter refuses a cyclic parent
    lastOp,       \* the operation that returned last ("" before any)
    ret,          \* what it returned: "True", "False", "None" (no value)
    pre,          \* the skeleton when that operation was called
    arg,          \* the arguments of that operation
    nOps,         \* operations called so far
    inScene,      \* whether the scene holds an armature object
    meshes,       \* names of the mesh objects of the scene
    groups,       \* vertex groups of the weighted mesh: name -> (vertex -> weight)
    pc,           \* position inside the running handler
    log,          \* the steps the running handler has executed, in order
    result,       \* the handler's outcome: "none", "True", "False", "raised"
    input,        \* the inputs of the running handler
    marker,       \* whether an object carries hoyo2vrc_converted
    scene_settings  \* the scene's conversion settings as they are now

vars == <<bones, mode, active, hostChecks, lastOp, ret, pre, arg, nOps,
          inScene, meshes, groups, pc, log, result, input, marker,
          scene_settings>>

runVars == <<pc, log, result, input, marker, scene_settings>>

\* the defaults of the four scene properties (ui/settings.py)
DefaultScene ==
    [merge_all_meshes |-> FALSE, generate_shape_keys |-> TRUE,
     generate_shape_keys_mmd |-> TRUE, keep_star_eye_mesh |-> FALSE]

None == 0

\* ------------------------------------------------------------ vectors

X == 1
Y == 2
Z == 3

axis_map == [x |-> X, y |-> Y, z |-> Z]

Vec(a, b, c) == <<a, b, c>>

\* point1 + (point2 - point1) * ratio, the ratio a percentage
Between(p1, p2, ratio) == p1 + ((p2 - p1) * ratio) \div 100

\* ------------------------------------------------------------ skeleton store

Bone(n, h, t, p) ==
    [name |-> n, head |-> h, tail |-> t, roll |-> 0, parent |-> p,
     use_connect |-> FALSE, use_deform |-> TRUE]

Has(bs, n) == \E i \in DOMAIN bs : bs[i].name = n

\* edit_bones.get(name): the joint of that name, or None
Get(bs, n) == IF Has(bs, n) THEN CHOOSE i \in DOMAIN bs : bs[i].name = n ELSE None

Names(bs) == {bs[i].name : i \in DOMAIN bs}

Roots(bs) == {i \in DOMAIN bs : bs[i].parent = None}

RECURSIVE AncestorsUpTo(_, _, _)
AncestorsUpTo(bs, i, k) ==
    IF k = 0 \/ i \notin DOMAIN bs \/ bs[i].parent = None \/ bs[i].parent \notin DOMAIN bs
    THEN {}
    ELSE {bs[i].parent} \cup AncestorsUpTo(bs, bs[i].parent, k - 1)

\* the joints above i in the parent relation (i itself when it lies on a cycle)
Ancestors(bs, i) == AncestorsUpTo(bs, i, Cardinality(DOMAIN bs))

Acyclic(bs) == \A i \in DOMAIN bs : i \notin Ancestors(bs, i)

\* bone.parent = p.  The repository assigns the reference; whether a parent
\* that is the joint itself or one of its descendants is stored or refused is
\* the host's decision (hostChecks), which the repository does not control.
SetParent(bs, checks, i, p) ==
    IF p # None /\ checks /\ (p = i \/ i \in Ancestors(bs, p))
    THEN bs
    ELSE [bs EXCEPT ![i].parent = p]

\* edit_bones.remove(bone): the children of the removed joint are handed to
\* its parent.
Remove(bs, i) ==
    [j \in DOMAIN bs \ {i} |->
        IF bs[j].parent = i THEN [bs[j] EXCEPT !.parent = bs[i].parent] ELSE bs[j]]

IsArmature(a) == a = "ARMATURE"

\* what an operation hands back: the skeleton, the host mode and the value
Out(bs, m, r) == [bones |-> bs, mode |-> m, ret |-> r]

\* ------------------------------------------------------------ position_bone

\* refs[key]: the reference joint, read where the rule reads it
Ref(s, refpts, key) == s.b[Get(s.b, refpts[key])]

\* a rule that names a key reference_points lacks raises KeyError
Raise(s) == [s EXCEPT !.ok = FALSE]

HeadFollow(s, t, refpts, hr) ==
    IF ~s.ok \/ "follow" \notin DOMAIN hr THEN s
    ELSE LET rule == hr.follow IN
         IF rule.reference \notin DOMAIN refpts THEN Raise(s)
         ELSE LET rb == Ref(s, refpts, rule.reference)
                  point == IF rule.point = "tail" THEN rb.tail ELSE rb.head
              IN [s EXCEPT !.b[t].head = point]

\* the horizontal rule taking the first point instead of going between the two
HeadHorizontalFirst(s, t, refpts, hr) ==
    IF ~s.ok \/ "horizontal" \notin DOMAIN hr THEN s
    ELSE [s EXCEPT !.b[t].head[X] = Ref(s, refpts, hr.horizontal.points[1]).head[X],
                   !.b[t].head[Y] = Ref(s, refpts, hr.horizontal.points[1]).head[Y]]

HeadHorizontal(s, t, refpts, hr) ==
    IF ~s.ok \/ "horizontal" \notin DOMAIN hr THEN s
    ELSE LET rule == hr.horizontal IN
         IF rule.method # "between" THEN s
         ELSE IF rule.points[1] \notin DOMAIN refpts \/ rule.points[2] \notin DOMAIN refpts
         THEN Raise(s)
         ELSE LET point1 == Ref(s, refpts, rule.points[1]).head
                  point2 == Ref(s, refpts, rule.points[2]).head
              IN [s EXCEPT !.b[t].head[X] = Between(point1[X], point2[X], rule.ratio),
                           !.b[t].head[Y] = Between(point1[Y], point2[Y], rule.ratio)]

HeadVertical(s, t, refpts, hr) ==
    IF ~s.ok \/ "vertical" \notin DOMAIN hr THEN s
    ELSE LET rule == hr.vertical IN
         IF rule.method = "between"
         THEN IF rule.points[1] \notin DOMAIN refpts \/ rule.points[2] \notin DOMAIN refpts
              THEN Raise(s)
              ELSE LET point1 == Ref(s, refpts, rule.points[1]).head
                       point2 == Ref(s, refpts, rule.points[2]).head
                   IN [s EXCEPT !.b[t].head[Z] = Between(point1[Z], point2[Z], rule.ratio)]
         ELSE IF rule.method = "offset"
         THEN IF rule.reference \notin DOMAIN refpts THEN Raise(s)
              ELSE [s EXCEPT !.b[t].head[Z] =
                        Ref(s, refpts, rule.reference).head[Z] + rule.value]
         ELSE s

HeadMinOffset(s, t, refpts, hr) ==
    IF ~s.ok \/ "min_offset" \notin DOMAIN hr THEN s
    ELSE LET rule == hr.min_offset IN
         IF rule.reference \notin DOMAIN refpts THEN Raise(s)
         ELSE LET axis == axis_map[rule.axis]
                  ref_point == Ref(s, refpts, rule.reference).head[axis]
                  min_value == ref_point + rule.value
              IN IF s.b[t].head[axis] <= ref_point
                 THEN [s EXCEPT !.b[t].head[axis] = min_value]
                 ELSE s

PositionHead(s, t, refpts, rules) ==
    IF "head" \notin DOMAIN rules THEN s
    ELSE HeadMinOffset(
             HeadVertical(
                 HeadHorizontal(
                     HeadFollow(s, t, refpts, rules.head),
                     t, refpts, rules.head),
                 t, refpts, rules.head),
             t, refpts, rules.head)

TailFollowHead(s, t, tr) ==
    IF ~s.ok \/ "follow_head" \notin DOMAIN tr THEN s
    ELSE LET f(a) == IF \E n \in tr.follow_head : axis_map[n] = a
                     THEN s.b[t].head[a] ELSE s.b[t].tail[a]
         IN [s EXCEPT !.b[t].tail = <<f(X), f(Y), f(Z)>>]

\* the "vertical" (axis Z) and "forward" (axis Y) tail rules
TailOffset(s, t, refpts, tr, key, axis) ==
    IF ~s.ok \/ key \notin DOMAIN tr THEN s
    ELSE LET rule == tr[key] IN
         IF rule.method # "offset" THEN s
         ELSE IF rule.reference = "head"
         THEN [s EXCEPT !.b[t].tail[axis] = s.b[t].head[axis] + rule.value]
         ELSE IF rule.reference \notin DOMAIN refpts THEN Raise(s)
         ELSE [s EXCEPT !.b[t].tail[axis] =
                   Ref(s, refpts, rule.reference).head[axis] + rule.value]

TailMinLength(s, t, tr) ==
    IF ~s.ok \/ "min_length" \notin DOMAIN tr THEN s
    ELSE IF s.b[t].tail[Z] < s.b[t].head[Z] + tr.min_length
    THEN [s EXCEPT !.b[t].tail[Z] = s.b[t].head[Z] + tr.min_length]
    ELSE s

PositionTail(s, t, refpts, rules) ==
    IF "tail" \notin DOMAIN rules THEN s
    ELSE TailMinLength(
             TailOffset(
                 TailOffset(
                     TailFollowHead(s, t, rules.tail),
                     t, refpts, rules.tail, "vertical", Z),
                 t, refpts, rules.tail, "forward", Y),
             t, rules.tail)

\* ArmatureUtils.position_bone(context, target_bone, reference_points, position_rules);
\* m is the host mode at the call.
position_bone(bs, act, m, target, refpts, rules) ==
    IF target = "" \/ DOMAIN refpts = {} \/ DOMAIN rules = {} THEN Out(bs, m, "False")
    ELSE IF ~IsArmature(act) THEN Out(bs, m, "False")
    ELSE IF ~Has(bs, target) THEN Out(bs, "EDIT", "False")
    ELSE IF \E k \in DOMAIN refpts : ~Has(bs, refpts[k]) THEN Out(bs, "EDIT", "False")
    ELSE LET t == Get(bs, target)
             s == PositionTail(
                      PositionHead([b |-> bs, ok |-> TRUE], t, refpts, rules),
                      t, refpts, rules)
         IN IF s.ok THEN Out(s.b, "OBJECT", "True") ELSE Out(s.b, "EDIT", "False")

\* ------------------------------------------------------------ names

\* The host keeps joint names unique: a name already taken by another joint
\* is stored with the suffix ".001".
Suffixed(n) ==
    CASE n = "Hips" -> "Hips.001"
      [] n = "Spine" -> "Spine.001"
      [] n = "Chest" -> "Chest.001"
      [] n = "Upper Chest" -> "Upper Chest.001"
      [] n = "Neck" -> "Neck.001"
      [] n = "Left Eye" -> "Left Eye.001"
      [] n = "Right Eye" -> "Right Eye.001"
      [] OTHER -> "Bone.001"

\* bone.name = n
SetName(bs, i, n) ==
    IF \E j \in DOMAIN bs \ {i} : bs[j].name = n
    THEN [bs EXCEPT ![i].name = Suffixed(n)]
    ELSE [bs EXCEPT ![i].name = n]

\* the entries of rename_bones' bone_map for the raw names the model uses
bone_map ==
    [n \in {"Bip001", "Bip001 Pelvis", "Bip001 Spine", "Bip001 Spine1",
            "Bip001 Spine2", "Bip001 Neck", "Bip001 Head", "Bip001 L Thigh",
            "Bip001 R Thigh", "Bip001 L Calf", "Bip001 L UpperArm",
            "Bip001 R UpperArm", "Root_M"} |->
        CASE n = "Bip001" -> "Root"
          [] n = "Bip001 Pelvis" -> "Hips"
          [] n = "Bip001 Spine" -> "Spine"
          [] n = "Bip001 Spine1" -> "Chest"
          [] n = "Bip001 Spine2" -> "Upper Chest"
          [] n = "Bip001 Neck" -> "Neck"
          [] n = "Bip001 Head" -> "Head"
          [] n = "Bip001 L Thigh" -> "Left Upper Leg"
          [] n = "Bip001 R Thigh" -> "Right Upper Leg"
          [] n = "Bip001 L Calf" -> "Left Lower Leg"
          [] n = "Bip001 L UpperArm" -> "Left Upper Arm"
          [] n = "Bip001 R UpperArm" -> "Right Upper Arm"
          [] n = "Root_M" -> "Hips"]

\* the identities of a set, in edit_bones order
RECURSIVE InOrder(_)
InOrder(S) ==
    IF S = {} THEN <<>>
    ELSE LET i == CHOOSE k \in S : \A j \in S : k <= j
         IN <<i>> \o InOrder(S \ {i})

RECURSIVE RenameEach(_, _)
RenameEach(bs, ids) ==
    IF ids = <<>> THEN bs
    ELSE LET i == Head(ids) IN
         RenameEach(IF bs[i].name \in DOMAIN bone_map
                    THEN SetName(bs, i, bone_map[bs[i].name])
                    ELSE bs,
                    Tail(ids))

\* ArmatureUtils.rename_bones(context)
rename_bones(bs, act, m) ==
    IF ~IsArmature(act) THEN Out(bs, m, "False")
    ELSE Out(RenameEach(bs, InOrder(DOMAIN bs)), "OBJECT", "True")

\* ArmatureUtils.reset_bone_roll(context)
reset_bone_roll(bs, act, m) ==
    IF ~IsArmature(act) THEN Out(bs, m, "False")
    ELSE Out([i \in DOMAIN bs |-> [bs[i] EXCEPT !.roll = 0]], "OBJECT", "True")

\* ------------------------------------------------------------ clean, reparent, attach

RECURSIVE RemoveNamed(_, _)
RemoveNamed(bs, names) ==
    IF names = {} THEN bs
    ELSE LET n == CHOOSE k \in names : TRUE IN
         RemoveNamed(IF Has(bs, n) THEN Remove(bs, Get(bs, n)) ELSE bs, names \ {n})

\* ArmatureUtils.clean_bones(context, bones_to_remove)
clean_bones(bs, act, m, bones_to_remove) ==
    IF bones_to_remove = {} THEN Out(bs, m, "True")
    ELSE IF ~IsArmature(act) THEN Out(bs, m, "False")
    ELSE Out(RemoveNamed(bs, bones_to_remove), "OBJECT", "True")

RECURSIVE ReparentEach(_, _, _, _)
ReparentEach(bs, checks, keys, parent_bone) ==
    IF keys = <<>> THEN bs
    ELSE ReparentEach(IF Has(bs, Head(keys))
                      THEN SetParent(bs, checks, Get(bs, Head(keys)), parent_bone)
                      ELSE bs,
                      checks, Tail(keys), parent_bone)

\* ArmatureUtils.reparent_bones(context, bones_to_reparent, new_parent);
\* bones_to_reparent is given by its keys, the only part the code reads.
reparent_bones(bs, act, m, checks, bones_to_reparent, new_parent) ==
    IF bones_to_reparent = <<>> \/ new_parent = "" THEN Out(bs, m, "True")
    ELSE IF ~IsArmature(act) THEN Out(bs, m, "False")
    ELSE IF ~Has(bs, new_parent) THEN Out(bs, "EDIT", "False")
    ELSE Out(ReparentEach(bs, checks, bones_to_reparent, Get(bs, new_parent)),
             "OBJECT", "True")

\* a variant of AttachPair that copies the target's tail
AttachPairTail(bs, pair) ==
    LET source_bone == Get(bs, pair[1])
        target_bone == Get(bs, pair[2])
    IN IF source_bone = None \/ target_bone = None THEN bs
       ELSE [bs EXCEPT ![source_bone].tail = bs[target_bone].tail]

\* a variant of AttachPair that moves the tail half of the way to the target
AttachPairHalfway(bs, pair) ==
    LET source_bone == Get(bs, pair[1])
        target_bone == Get(bs, pair[2])
    IN IF source_bone = None \/ target_bone = None THEN bs
       ELSE [bs EXCEPT ![source_bone].tail =
                [a \in 1..3 |-> Between(bs[source_bone].tail[a], bs[target_bone].head[a], 50)]]

\* one (source, target) pair of attach_bones' loop
AttachPair(bs, pair) ==
    LET source_bone == Get(bs, pair[1])
        target_bone == Get(bs, pair[2])
    IN IF source_bone = None \/ target_bone = None THEN bs
       ELSE [bs EXCEPT ![source_bone].tail = bs[target_bone].head]

RECURSIVE AttachEach(_, _)
AttachEach(bs, pairs) ==
    IF pairs = <<>> THEN bs
    ELSE AttachEach(AttachPair(bs, Head(pairs)), Tail(pairs))

\* ArmatureUtils.attach_bones(context, bone_pairs); bone_pairs.items() in order
attach_bones(bs, act, m, bone_pairs) ==
    IF bone_pairs = <<>> THEN Out(bs, m, "False")
    ELSE IF ~IsArmature(act) THEN Out(bs, m, "False")
    ELSE Out(AttachEach(bs, bone_pairs), "OBJECT", "True")

\* ------------------------------------------------------------ duplicate_bones_with_weights

NewId(bs) == IF DOMAIN bs = {} THEN 1
             ELSE 1 + CHOOSE k \in DOMAIN bs : \A j \in DOMAIN bs : j <= k

\* edit_bones.new(name)
NewBone(bs, n) ==
    LET i == NewId(bs)
        nm == IF Has(bs, n) THEN Suffixed(n) ELSE n
    IN [j \in DOMAIN bs \cup {i} |->
           IF j = i THEN Bone(nm, <<0, 0, 0>>, <<0, 0, 0>>, None) ELSE bs[j]]

\* the entries of bones_to_duplicate whose original joint exists, in order
RECURSIVE Originals(_, _)
Originals(bs, dup) ==
    IF dup = <<>> THEN <<>>
    ELSE IF Has(bs, Head(dup)[1])
         THEN <<[orig |-> Head(dup)[1], new_name |-> Head(dup)[2],
                 data |-> bs[Get(bs, Head(dup)[1])]]>> \o Originals(bs, Tail(dup))
         ELSE Originals(bs, Tail(dup))

RECURSIVE CreateDuplicates(_, _)
CreateDuplicates(bs, originals) ==
    IF originals = <<>> THEN bs
    ELSE LET o == Head(originals)
             i == NewId(bs)
             made == NewBone(bs, o.new_name)
             copy == [made EXCEPT ![i].head = o.data.head,
                                  ![i].tail = o.data.tail,
                                  ![i].roll = o.data.roll,
                                  ![i].parent = o.data.parent,
                                  ![i].use_connect =
                                      IF o.data.parent # None THEN o.data.use_connect
                                      ELSE FALSE,
                                  ![i].use_deform = o.data.use_deform]
         IN CreateDuplicates(copy, Tail(originals))

\* the weight of vertex v in the group named g (0 when the group or the
\* membership is missing)
GroupWeight(gs, g, v) == IF g \in DOMAIN gs THEN gs[g][v] ELSE 0

\* a variant of SumWeights that reads the first source only
SumWeightsFirst(gs, sources, v) ==
    IF sources = <<>> THEN 0 ELSE GroupWeight(gs, Head(sources), v)

RECURSIVE SumWeights(_, _, _)
SumWeights(gs, sources, v) ==
    IF sources = <<>> THEN 0
    ELSE GroupWeight(gs, Head(sources), v) + SumWeights(gs, Tail(sources), v)

\* weight_sources of one new joint: the configured source(s), else the original
WeightSources(o, weight_source_bones) ==
    IF o.new_name \in DOMAIN weight_source_bones
    THEN weight_source_bones[o.new_name]
    ELSE <<o.orig>>

\* VertexGroup.add stores a weight clamped to [0, 1] (percent: [0, 100])
ClampWeight(w) == IF w > 100 THEN 100 ELSE IF w < 0 THEN 0 ELSE w

\* vertex_groups.new(name) followed by the per-vertex sums; a vertex whose sum
\* is 0 is not added to the group
RECURSIVE CopyWeights(_, _, _, _)
CopyWeights(gs, originals, weight_source_bones, verts) ==
    IF originals = <<>> THEN gs
    ELSE LET o == Head(originals)
             nm == IF o.new_name \in DOMAIN gs THEN Suffixed(o.new_name) ELSE o.new_name
             src == WeightSources(o, weight_source_bones)
             ws == [v \in verts |->
                       IF SumWeights(gs, src, v) > 0
                       THEN ClampWeight(SumWeights(gs, src, v)) ELSE 0]
             gs2 == [g \in DOMAIN gs \cup {nm} |-> IF g = nm THEN ws ELSE gs[g]]
         IN CopyWeights(gs2, Tail(originals), weight_source_bones, verts)

\* pose.bones.get(new_name).bone.use_deform = True, for every new joint
RECURSIVE EnableDeform(_, _)
EnableDeform(bs, originals) ==
    IF originals = <<>> THEN bs
    ELSE EnableDeform(
             IF Has(bs, Head(originals).new_name)
             THEN [bs EXCEPT ![Get(bs, Head(originals).new_name)].use_deform = TRUE]
             ELSE bs,
             Tail(originals))

\* ArmatureUtils.duplicate_bones_with_weights(context, bones_to_duplicate,
\* weight_source_bones, mesh_name); hands back the vertex groups as well
duplicate_bones_with_weights(bs, act, m, scene, ms, gs, verts, bones_to_duplicate, weight_source_bones, mesh_name) ==
    IF bones_to_duplicate = <<>> \/ mesh_name = ""
    THEN [bones |-> bs, mode |-> m, ret |-> "False", groups |-> gs, active |-> act]
    ELSE IF ~IsArmature(act) /\ ~scene
    THEN [bones |-> bs, mode |-> m, ret |-> "False", groups |-> gs, active |-> act]
    ELSE LET originals == Originals(bs, bones_to_duplicate)
             made == CreateDuplicates(bs, originals)
         IN IF mesh_name \notin ms
            THEN [bones |-> made, mode |-> "OBJECT", ret |-> "False", groups |-> gs,
                  active |-> "ARMATURE"]
            ELSE IF DOMAIN gs = {}
            THEN [bones |-> made, mode |-> "OBJECT", ret |-> "True", groups |-> gs,
                  active |-> act]
            ELSE [bones |-> EnableDeform(made, originals), mode |-> "OBJECT",
                  ret |-> "True",
                  groups |-> CopyWeights(gs, originals, weight_source_bones, verts),
                  active |-> act]

\* ------------------------------------------------------------ legacy CleanBones

\* the entries of CleanBones' bone_names for the names the model uses
CleanBones_bone_names ==
    {"Bip001 Pelvis", "+EyeBone L A01", "+EyeBone R A01", "Root", "Main"}

RECURSIVE RemoveEach(_, _)
RemoveEach(bs, ids) ==
    IF ids = <<>> THEN bs
    ELSE RemoveEach(IF Head(ids) \in DOMAIN bs THEN Remove(bs, Head(ids)) ELSE bs,
                    Tail(ids))

\* Tools.armature_utils.CleanBones(); scene tells whether GetArmature() finds
\* an armature.  The function returns no value.
CleanBones(bs, act, m, scene) ==
    IF ~scene
    THEN [bones |-> bs, mode |-> m, ret |-> "None", active |-> act]
    ELSE LET bones_to_remove ==
                 {i \in DOMAIN bs : bs[i].name \in CleanBones_bone_names}
         IN IF bones_to_remove = {}
            THEN [bones |-> bs, mode |-> "EDIT", ret |-> "None", active |-> "ARMATURE"]
            ELSE [bones |-> RemoveEach(bs, InOrder(bones_to_remove)),
                  mode |-> "OBJECT", ret |-> "None", active |-> "ARMATURE"]

\* ------------------------------------------------------------ the calls the pipelines make

\* convert_genshin's Hips call (the other pipelines pass the same arguments)
HipsCall ==
    [target |-> "Hips",
     refs |-> [left |-> "Left Upper Leg", right |-> "Right Upper Leg", up |-> "Spine"],
     rules |->
        [head |-> [horizontal |-> [method |-> "between",
                                   points |-> <<"left", "right">>, ratio |-> 50],
                   vertical |-> [method |-> "between",
                                 points |-> <<"left", "up">>, ratio |-> 33],
                   min_offset |-> [axis |-> "z", reference |-> "right", value |-> 100]],
         tail |-> [follow_head |-> {"x", "y"},
                   vertical |-> [method |-> "offset", reference |-> "up", value |-> 50],
                   min_length |-> 500]]]

\* a Spine / Chest / Upper Chest call: head on the tail of the joint below,
\* tail straight up by value
StackCall(target, key, below, value) ==
    [target |-> target,
     refs |-> [k \in {key} |-> below],
     rules |->
        [head |-> [follow |-> [reference |-> key, point |-> "tail"]],
         tail |-> [follow_head |-> {"x", "y"},
                   vertical |-> [method |-> "offset", reference |-> "head",
                                 value |-> value]]]]

SpineCall == StackCall("Spine", "hips", "Hips", 750)

ChestCall == StackCall("Chest", "spine", "Spine", 750)

UpperChestCall == StackCall("Upper Chest", "chest", "Chest", 1250)

\* the call made for each eye joint after duplication
EyeCall(eye_bone) ==
    [target |-> eye_bone,
     refs |-> [self |-> eye_bone],
     rules |->
        [tail |-> [follow_head |-> {"x", "y"},
                   vertical |-> [method |-> "offset", reference |-> "head",
                                 value |-> 500]]]]

\* the entries of convert_genshin's bone_pairs for the joints the model uses,
\* in the order of the dictionary
bone_pairs ==
    <<<<"Left Shoulder", "Left Upper Arm">>,
      <<"Upper Chest", "Neck">>,
      <<"Left Upper Leg", "Left Lower Leg">>>>

\* convert_genshin's bones_to_duplicate, weight_source_bones and target mesh
bones_to_duplicate == <<<<"+EyeBone L A01", "Left Eye">>, <<"+EyeBone R A01", "Right Eye">>>>

weight_source_bones ==
    [n \in {"Left Eye", "Right Eye"} |->
        IF n = "Left Eye" THEN <<"+EyeBone L A02">> ELSE <<"+EyeBone R A02">>]

\* ------------------------------------------------------------ rigs

\* A humanoid rig under canonical names: legs at heights lz and rz, the Spine
\* head at height sz.  Identities follow edit_bones order.
Rig(lz, rz, sz) ==
    <<Bone("Root", <<0, 0, 0>>, <<0, 0, 1000>>, None),
      Bone("Hips", <<0, 100, 9500>>, <<0, 600, 9500>>, 1),
      Bone("Spine", <<0, 0, sz>>, <<0, 200, sz + 700>>, 2),
      Bone("Chest", <<0, 0, sz + 1000>>, <<0, 200, sz + 1900>>, 3),
      Bone("Upper Chest", <<0, 0, sz + 2000>>, <<0, 100, sz + 2900>>, 4),
      Bone("Neck", <<0, 0, sz + 3000>>, <<0, 0, sz + 3500>>, 5),
      Bone("Head", <<0, 0, sz + 3600>>, <<0, 0, sz + 5000>>, 6),
      Bone("Left Upper Leg", <<800, 0, lz>>, <<800, 0, lz - 4000>>, 2),
      Bone("Right Upper Leg", <<-800, 0, rz>>, <<-800, 0, rz - 4000>>, 2),
      Bone("Left Lower Leg", <<800, 100, lz - 4100>>, <<800, 0, lz - 8000>>, 8),
      Bone("+PelvisTwist CF A01", <<0, 0, 9000>>, <<0, 300, 9000>>, 1),
      Bone("+EyeBone L A01", <<300, -500, sz + 4200>>, <<300, -900, sz + 4200>>, 7)>>

\* the raw name a canonical name of the model's rigs comes from
RawName(n) ==
    CASE n = "Root" -> "Bip001"
      [] n = "Hips" -> "Bip001 Pelvis"
      [] n = "Spine" -> "Bip001 Spine"
      [] n = "Chest" -> "Bip001 Spine1"
      [] n = "Upper Chest" -> "Bip001 Spine2"
      [] n = "Neck" -> "Bip001 Neck"
      [] n = "Head" -> "Bip001 Head"
      [] n = "Left Upper Leg" -> "Bip001 L Thigh"
      [] n = "Right Upper Leg" -> "Bip001 R Thigh"
      [] n = "Left Lower Leg" -> "Bip001 L Calf"
      [] OTHER -> n

\* the rig as imported, before renaming
Raw(bs) == [i \in DOMAIN bs |-> [bs[i] EXCEPT !.name = RawName(@)]]

\* the rig without the joints named in absent
Without(bs, absent) == RemoveNamed(bs, absent)

\* the vertex groups of the weighted mesh for the eye joints' sources
EyeGroups(verts) ==
    [g \in {"+EyeBone L A01", "+EyeBone L A02"} |->
        [v \in verts |-> IF v = 1 THEN (IF g = "+EyeBone L A02" THEN 100 ELSE 50) ELSE 0]]

\* vertex groups whose weights stay below 1 when summed; vertex 2 belongs to
\* one of the two groups only
EyeGroupsLight(verts) ==
    [g \in {"+EyeBone L A01", "+EyeBone L A02"} |->
        [v \in verts |-> IF v = 1 THEN (IF g = "+EyeBone L A02" THEN 40 ELSE 30)
                         ELSE IF v = 2 /\ g = "+EyeBone L A02" THEN 40 ELSE 0]]

\* ------------------------------------------------------------ adjust_bone_tails_to_connect

\* the default exclude_substrings, and convert_zzz's custom_exclusions
default_exclusions ==
    {"pelvis", "waist", "spine", "arm", "leg", "chest", "neck", "head", "knee", "calf",
     "elbow", "skirt", "thigh", "twist"}

custom_exclusions == default_exclusions \cup {"hair", "cloth", "accessory"}

\* the words of custom_exclusions that bone.name.lower() contains, for the
\* names the model uses
NameWords(n) ==
    CASE n \in {"Hair1", "Hair2"} -> {"hair"}
      [] n \in {"Spine", "Spine1", "Spine2", "Spine.001", "Bip001 Spine",
                "Bip001 Spine1", "Bip001 Spine2"} -> {"spine"}
      [] n \in {"Chest", "Upper Chest", "Chest.001", "Upper Chest.001"} -> {"chest"}
      [] n \in {"Neck", "Neck.001", "Bip001 Neck"} -> {"neck"}
      [] n \in {"Head", "Bip001 Head"} -> {"head"}
      [] n \in {"Left Upper Leg", "Right Upper Leg", "Left Lower Leg", "Left leg",
                "Right leg"} -> {"leg"}
      [] n \in {"Left knee", "Right knee", "Knee_R"} -> {"knee"}
      [] n \in {"Bip001 L Thigh", "Bip001 R Thigh"} -> {"thigh"}
      [] n = "Bip001 L Calf" -> {"calf"}
      [] n = "Bip001 Pelvis" -> {"pelvis"}
      [] n = "+PelvisTwist CF A01" -> {"pelvis", "twist"}
      [] OTHER -> {}

\* name_pattern.match(bone.name): the prefix and the number a name ends with
\* (num -1: the name does not end with digits), for the names the model uses
ChainKey(n) ==
    CASE n = "Tail0" -> [prefix |-> "Tail", num |-> 0]
      [] n = "Tail1" -> [prefix |-> "Tail", num |-> 1]
      [] n = "Tail2" -> [prefix |-> "Tail", num |-> 2]
      [] n = "Tail3" -> [prefix |-> "Tail", num |-> 3]
      [] n = "Ribbon1" -> [prefix |-> "Ribbon", num |-> 1]
      [] n = "Ribbon2" -> [prefix |-> "Ribbon", num |-> 2]
      [] n = "Ribbon3" -> [prefix |-> "Ribbon", num |-> 3]
      [] n = "Hair1" -> [prefix |-> "Hair", num |-> 1]
      [] n = "Hair2" -> [prefix |-> "Hair", num |-> 2]
      [] n = "Spine1" -> [prefix |-> "Spine", num |-> 1]
      [] n = "Spine2" -> [prefix |-> "Spine", num |-> 2]
      [] n = "Bip001" -> [prefix |-> "Bip", num |-> 1]
      [] n = "Bip001 Spine1" -> [prefix |-> "Bip001 Spine", num |-> 1]
      [] n = "Bip001 Spine2" -> [prefix |-> "Bip001 Spine", num |-> 2]
      [] n = "+EyeBone L A01" -> [prefix |-> "+EyeBone L A", num |-> 1]
      [] n = "+PelvisTwist CF A01" -> [prefix |-> "+PelvisTwist CF A", num |-> 1]
      [] n = "Bone.001" -> [prefix |-> "Bone.", num |-> 1]
      [] n = "Hips.001" -> [prefix |-> "Hips.", num |-> 1]
      [] n = "Spine.001" -> [prefix |-> "Spine.", num |-> 1]
      [] n = "Chest.001" -> [prefix |-> "Chest.", num |-> 1]
      [] n = "Upper Chest.001" -> [prefix |-> "Upper Chest.", num |-> 1]
      [] n = "Neck.001" -> [prefix |-> "Neck.", num |-> 1]
      [] n = "Left Eye.001" -> [prefix |-> "Left Eye.", num |-> 1]
      [] n = "Right Eye.001" -> [prefix |-> "Right Eye.", num |-> 1]
      [] OTHER -> [prefix |-> "", num |-> -1]

\* sorted(bone_chains.keys()), over the prefixes of at least two of the
\* model's names (a chain of fewer than two joints is skipped)
sorted_prefixes == <<"Bip001 Spine", "Hair", "Ribbon", "Spine", "Tail">>

\* a variant of ChainIds that leaves the exclusion list out
ChainIdsAll(bs, exclude, prefix) ==
    {i \in DOMAIN bs : /\ ChainKey(bs[i].name).num >= 0
                       /\ ChainKey(bs[i].name).prefix = prefix}

\* bone_chains[prefix]: the joints of the prefix that are not excluded
ChainIds(bs, exclude, prefix) ==
    {i \in DOMAIN bs : /\ NameWords(bs[i].name) \cap exclude = {}
                       /\ ChainKey(bs[i].name).num >= 0
                       /\ ChainKey(bs[i].name).prefix = prefix}

\* the joints of ids in the order of their numbers (sorted_bone_keys)
RECURSIVE SortedChain(_, _)
SortedChain(bs, ids) ==
    IF ids = {} THEN <<>>
    ELSE LET f == CHOOSE i \in ids :
                    \A j \in ids : ChainKey(bs[i].name).num <= ChainKey(bs[j].name).num
         IN <<f>> \o SortedChain(bs, ids \ {f})

\* one turn of the loop over a chain: current_bone chain[1], next_bone chain[2].
\* A distance below 0.0001 is equality of the fixed-point coordinates.  The
\* host attaches a joint set to connected to the parent it has: its head is
\* put on that parent's tail.
RECURSIVE ConnectChain(_, _, _)
ConnectChain(bs, checks, chain) ==
    IF Len(chain) < 2 THEN bs
    ELSE LET cur == chain[1]
             nxt == chain[2]
             moved == [bs EXCEPT ![cur].tail = bs[nxt].head]
             parented == IF moved[nxt].parent # cur
                         THEN SetParent(moved, checks, nxt, cur) ELSE moved
             par == parented[nxt].parent
             connected == IF parented[nxt].use_connect THEN parented
                          ELSE [parented EXCEPT
                                  ![nxt].use_connect = TRUE,
                                  ![nxt].head = IF par # None THEN parented[par].tail
                                                ELSE @]
         IN IF bs[cur].tail = bs[nxt].head /\ bs[nxt].parent = cur /\ bs[nxt].use_connect
            THEN ConnectChain(bs, checks, Tail(chain))
            ELSE ConnectChain(connected, checks, Tail(chain))

\* the loop over sorted_prefixes: a chain of fewer than two joints, or one
\* whose numbers are not consecutive, is skipped as a whole
RECURSIVE ProcessChains(_, _, _, _)
ProcessChains(bs, checks, exclude, prefixes) ==
    IF prefixes = <<>> THEN bs
    ELSE LET chain == SortedChain(bs, ChainIds(bs, exclude, Head(prefixes)))
             is_continuous ==
                 \A k \in 1..Len(chain) :
                     ChainKey(bs[chain[k]].name).num
                         = ChainKey(bs[chain[1]].name).num + (k - 1)
         IN IF Len(chain) < 2 \/ ~is_continuous
            THEN ProcessChains(bs, checks, exclude, Tail(prefixes))
            ELSE ProcessChains(ConnectChain(bs, checks, chain), checks, exclude,
                               Tail(prefixes))

\* ArmatureUtils.adjust_bone_tails_to_connect(context, exclude_substrings);
\* an empty exclude_substrings stands for the default list
adjust_bone_tails_to_connect(bs, act, m, checks, exclude_substrings) ==
    IF ~IsArmature(act) THEN Out(bs, m, "False")
    ELSE Out(ProcessChains(bs, checks,
                           IF exclude_substrings = {} THEN default_exclusions
                           ELSE exclude_substrings,
                           sorted_prefixes),
             "OBJECT", "True")

\* A skirt-and-hair rig: a Tail chain whose third joint is numbered last, a
\* Ribbon chain starting at 1 whose last link is already connected, and a Hair
\* chain.  With inverted, Ribbon1 hangs under Ribbon2.
ChainRig(last, inverted) ==
    <<Bone("Hips", <<0, 100, 9500>>, <<0, 600, 9500>>, None),
      Bone("Tail0", <<0, -500, 9000>>, <<0, -500, 8000>>, 1),
      Bone("Tail1", <<0, -600, 7900>>, <<0, -600, 7000>>, 2),
      Bone(IF last = 2 THEN "Tail2" ELSE "Tail3",
           <<0, -700, 6900>>, <<0, -700, 6000>>, 1),
      Bone("Ribbon1", <<500, 0, 9000>>, <<500, 0, 8000>>, IF inverted THEN 6 ELSE 1),
      Bone("Ribbon2", <<500, 100, 7900>>, <<500, 100, 7000>>, IF inverted THEN 1 ELSE 5),
      [Bone("Ribbon3", <<500, 100, 7000>>, <<500, 100, 6000>>, 6)
          EXCEPT !.use_connect = TRUE],
      Bone("Hair1", <<0, 0, 15000>>, <<0, -300, 14500>>, 1),
      Bone("Hair2", <<0, -400, 14400>>, <<0, -500, 14000>>, 1)>>

\* ------------------------------------------------------------ legacy resolver (Tools)

\* one turn of SetHipAsParent's loop
HipLoopStep(bs, checks, i, hips) ==
    IF bs[i].parent = None THEN SetParent(bs, checks, i, hips) ELSE bs

RECURSIVE HipLoop(_, _, _, _)
HipLoop(bs, checks, ids, hips) ==
    IF ids = <<>> THEN bs
    ELSE HipLoop(HipLoopStep(bs, checks, Head(ids), hips), checks, Tail(ids), hips)

\* Tools.armature_utils.SetHipAsParent(armature)
SetHipAsParent(bs, checks) ==
    IF Has(bs, "Hips")
    THEN LET hips == Get(bs, "Hips")
         IN HipLoop([bs EXCEPT ![hips].parent = None], checks, InOrder(DOMAIN bs), hips)
    ELSE bs

\* re.match(r"spine\d*$", name.lower()), on the names the model uses
IsSpineName(n) == n \in {"Spine", "Spine1", "Spine2"}

RECURSIVE RenameSpinesFrom(_, _, _)
RenameSpinesFrom(bs, spines, names) ==
    IF spines = <<>> \/ names = <<>> THEN bs
    ELSE RenameSpinesFrom(SetName(bs, Head(spines), Head(names)), Tail(spines), Tail(names))

\* Tools.armature_utils.RenameSpines(armature, names)
RenameSpines(bs, names) ==
    RenameSpinesFrom(bs, InOrder({i \in DOMAIN bs : IsSpineName(bs[i].name)}), names)

\* Tools.armature_utils.GetBones(armature, bone_names): the requested names
\* the skeleton has, in the order requested
RECURSIVE GetBones(_, _)
GetBones(bs, bone_names) ==
    IF bone_names = <<>> THEN <<>>
    ELSE (IF Has(bs, Head(bone_names)) THEN <<Head(bone_names)>> ELSE <<>>)
         \o GetBones(bs, Tail(bone_names))

\* SetupArmature's bone_names
SetupBoneNames ==
    <<"Hips", "Spine", "Chest", "Upper Chest", "Head",
      "Left leg", "Right leg", "Left knee", "Right knee">>

\* Tools.armature_utils.FixHips(hips, right_leg, left_leg, spine, ...)
FixHips(bs) ==
    LET hips == Get(bs, "Hips")
        right_leg == bs[Get(bs, "Right leg")]
        left_leg == bs[Get(bs, "Left leg")]
        spine == bs[Get(bs, "Spine")]
        hx == (right_leg.head[X] + left_leg.head[X]) \div 2
        hy == (right_leg.head[Y] + left_leg.head[Y]) \div 2
        hz0 == Between(left_leg.head[Z], spine.head[Z], 33)
        hz == IF hz0 <= right_leg.head[Z] THEN right_leg.head[Z] + 1000 ELSE hz0
        tz0 == spine.head[Z] + 300
        tz == IF tz0 < hz THEN tz0 + 1000 ELSE tz0
    IN [bs EXCEPT ![hips].head = <<hx, hy, hz>>, ![hips].tail = <<hx, hy, tz>>]

\* FixSpine, FixChest and FixUpperChest: the head on the tail of the joint
\* below, the tail straight above the head
StackOn(bs, target, below, length) ==
    LET t == Get(bs, target)
        h == bs[Get(bs, below)].tail
    IN [bs EXCEPT ![t].head = h, ![t].tail = <<h[X], h[Y], h[Z] + length>>]

FixSpine(bs) == StackOn(bs, "Spine", "Hips", 650)

FixChest(bs) == StackOn(bs, "Chest", "Spine", 650)

FixUpperChest(bs) == StackOn(bs, "Upper Chest", "Chest", 1000)

\* Tools.armature_utils.AdjustLegs(left_leg, right_leg, left_knee, right_knee, y_cord)
AdjustLegs(bs) ==
    [bs EXCEPT ![Get(bs, "Left leg")].tail[Y] = @ - 150,
               ![Get(bs, "Left knee")].head[Y] = @ - 150,
               ![Get(bs, "Right leg")].tail[Y] = @ - 150,
               ![Get(bs, "Right knee")].head[Y] = @ - 150]

\* Tools.armature_utils.StraightenHead(armature, head, ...)
StraightenHead(bs) ==
    IF Has(bs, "Head")
    THEN LET i == Get(bs, "Head")
             h == bs[i].head
             t == bs[i].tail
         IN [bs EXCEPT ![i].tail =
                <<h[X], h[Y], IF t[Z] < h[Z] THEN h[Z] + 1000 ELSE t[Z]>>]
    ELSE bs

\* Tools.armature_utils.FixMissingNeck(armature, chest, head, ...)
FixMissingNeck(bs) ==
    IF ~Has(bs, "Neck") /\ Has(bs, "Chest") /\ Has(bs, "Head")
    THEN LET made == NewBone(bs, "Neck")
             neck == NewId(bs)
             h == bs[Get(bs, "Chest")].tail
             t == bs[Get(bs, "Head")].head
         IN [made EXCEPT ![neck].head = h,
                         ![neck].tail =
                             IF h[Z] = t[Z] THEN <<t[X], t[Y], t[Z] + 1000>> ELSE t]
    ELSE bs

\* Tools.armature_utils.SetBoneRollToZero(armature)
SetBoneRollToZero(bs) == [i \in DOMAIN bs |-> [bs[i] EXCEPT !.roll = 0]]

\* Tools.armature_utils.attachbones(armature, bone_name1, bone_name2, exact_match=True)
attachbones(bs, bone_name1, bone_name2) ==
    LET bone1 == Get(bs, bone_name1)
        bone2 == Get(bs, bone_name2)
    IN IF bone1 # None /\ bone2 # None
       THEN [bs EXCEPT ![bone1].tail = bs[bone2].head]
       ELSE bs

\* ConnectArmature's bone_pairs for the joints the model uses, in list order
ConnectPairs(connect_twist_to_limbs, connect_chest_to_neck) ==
    <<<<"Left knee", "Left ankle">>, <<"Left leg", "Left knee">>,
      <<"Right leg", "Right knee">>, <<"Neck", "Head">>>>
    \o (IF connect_twist_to_limbs
        THEN <<<<"Knee_R", "Right ankle">>, <<"Right leg", "Knee_R">>>>
        ELSE <<<<"Right arm", "Right elbow">>>>)
    \o (IF connect_chest_to_neck
        THEN <<<<"Chest", "Neck">>>>
        ELSE <<<<"Upper Chest", "Neck">>>>)

RECURSIVE ConnectEach(_, _)
ConnectEach(bs, pairs) ==
    IF pairs = <<>> THEN bs
    ELSE ConnectEach(attachbones(bs, Head(pairs)[1], Head(pairs)[2]), Tail(pairs))

\* ConvertHonkaiImpactPlayerCharacter.execute.ConnectArmature()
ConnectArmature(bs, pairs) == Out(ConnectEach(bs, pairs), "OBJECT", "None")

\* A rig as the legacy resolver meets it: the first joint named first, legs at
\* heights lz and rz, the Spine head at height sz; the twist joint Knee_R hangs
\* under the right leg, or is parentless when loose.
LegacyRig(first, lz, rz, sz, loose) ==
    <<Bone(first, <<0, 100, 9500>>, <<0, 600, 9500>>, None),
      Bone("Spine", <<0, 0, sz>>, <<0, 200, sz + 700>>, 1),
      Bone("Spine1", <<0, 0, sz + 1000>>, <<0, 200, sz + 1900>>, 2),
      Bone("Spine2", <<0, 0, sz + 2000>>, <<0, 100, sz + 2900>>, 3),
      Bone("Neck", <<0, 0, sz + 3000>>, <<0, 0, sz + 3500>>, 4),
      Bone("Head", <<0, 0, sz + 3600>>, <<0, 200, sz + 3000>>, 5),
      Bone("Left leg", <<800, 0, lz>>, <<800, 0, lz - 4000>>, 1),
      Bone("Right leg", <<-800, 0, rz>>, <<-800, 0, rz - 4000>>, 1),
      Bone("Left knee", <<800, 100, lz - 4100>>, <<800, 0, lz - 8000>>, 7),
      Bone("Right knee", <<-800, 100, rz - 4100>>, <<-800, 0, rz - 8000>>, 8),
      Bone("Knee_R", <<-800, 0, rz - 3000>>, <<-800, 0, rz - 3500>>,
           IF loose THEN None ELSE 8)>>

\* ------------------------------------------------------------ skeleton operations, freely sequenced

MaxOps == 2

NumVerts == 3

Verts == 1..NumVerts

\* upper legs one unit left and right of the origin, the Spine five units up
LegsApartRig ==
    <<Bone("Hips", <<0, 0, 20000>>, <<0, 0, 30000>>, None),
      Bone("Spine", <<0, 0, 50000>>, <<0, 0, 60000>>, 1),
      Bone("Left Upper Leg", <<-10000, 0, 0>>, <<-10000, 0, -40000>>, 1),
      Bone("Right Upper Leg", <<10000, 0, 0>>, <<10000, 0, -40000>>, 1)>>

\* a rig whose only eye joint is the right one, and not a deforming joint
RightEyeRig ==
    [Rig(9000, 9000, 10000) EXCEPT ![12].name = "+EyeBone R A01",
                                   ![12].use_deform = FALSE]

OpsRigs ==
    {Rig(9000, 9000, 10000), Rig(9000, 9000, 8700),
     Without(Rig(9000, 9000, 10000), {"Hips"}),
     Without(Rig(9000, 9000, 10000), {"Neck", "Root"}),
     Raw(Rig(9000, 9000, 10000)),
     RenameSpines(LegacyRig("Hips", 9000, 9000, 10000, FALSE),
                  <<"Spine", "Chest", "Upper Chest">>),
     ChainRig(3, FALSE), ChainRig(2, FALSE), ChainRig(3, TRUE),
     Rig(9000, 9000, 9150), Rig(9400, 9000, 9000), LegsApartRig, RightEyeRig}

InitOps ==
    /\ bones \in OpsRigs
    /\ mode = "OBJECT"
    /\ \E c \in {<<"ARMATURE", TRUE>>, <<"MESH", TRUE>>, <<"NONE", FALSE>>} :
          active = c[1] /\ inScene = c[2]
    /\ hostChecks \in BOOLEAN
    /\ \E c \in {<<{"Body"}, EyeGroups(Verts)>>, <<{"Body"}, EyeGroupsLight(Verts)>>,
                 <<{"Body"}, <<>>>>, <<{}, <<>>>>} :
          meshes = c[1] /\ groups = c[2]
    /\ lastOp = ""
    /\ ret = "None"
    /\ pre = bones
    /\ arg = <<>>
    /\ nOps = 0
    /\ pc = "ops"
    /\ log = <<>>
    /\ result = "none"
    /\ input = <<>>
    /\ marker = FALSE
    /\ scene_settings = DefaultScene

\* operation op, called with arguments a, has returned o
Returned(op, a, o) ==
    /\ bones' = o.bones
    /\ mode' = o.mode
    /\ ret' = o.ret
    /\ lastOp' = op
    /\ arg' = a
    /\ pre' = bones
    /\ nOps' = nOps + 1

\* a rule naming a key that reference_points lacks
BadKeyCall ==
    [target |-> "Spine",
     refs |-> [hips |-> "Hips"],
     rules |->
        [head |-> [follow |-> [reference |-> "hip", point |-> "tail"]],
         tail |-> [follow_head |-> {"x", "y"}]]]

\* a head rule that can be carried out, then a tail rule naming a key that
\* reference_points lacks
LateBadKeyCall ==
    [target |-> "Spine",
     refs |-> [hips |-> "Hips"],
     rules |->
        [head |-> [follow |-> [reference |-> "hips", point |-> "tail"]],
         tail |-> [vertical |-> [method |-> "offset", reference |-> "hip", value |-> 750]]]]

NoTargetCall == [target |-> "", refs |-> [hips |-> "Hips"], rules |-> SpineCall.rules]

PositionCalls ==
    <<HipsCall, SpineCall, ChestCall, UpperChestCall, EyeCall("Left Eye"),
      BadKeyCall, NoTargetCall, LateBadKeyCall>>

OpPositionBone ==
    /\ nOps < MaxOps
    /\ \E k \in 1..Len(PositionCalls) :
          LET c == PositionCalls[k] IN
          Returned("position_bone", c,
                   position_bone(bones, active, mode, c.target, c.refs, c.rules))
    /\ UNCHANGED <<active, hostChecks, inScene, meshes, groups, runVars>>

ReparentCalls ==
    <<[keys |-> <<"+PelvisTwist CF A01">>, new_parent |-> "Hips"],
      [keys |-> <<"Left Eye", "Right Eye">>, new_parent |-> "Head"],
      [keys |-> <<"Hips", "Spine">>, new_parent |-> "Chest"],
      [keys |-> <<>>, new_parent |-> "Hips"]>>

OpReparentBones ==
    /\ nOps < MaxOps
    /\ \E k \in 1..Len(ReparentCalls) :
          LET c == ReparentCalls[k] IN
          Returned("reparent_bones", c,
                   reparent_bones(bones, active, mode, hostChecks, c.keys, c.new_parent))
    /\ UNCHANGED <<active, hostChecks, inScene, meshes, groups, runVars>>

OpCleanBones ==
    /\ nOps < MaxOps
    /\ \E names \in {{"Root"}, {}} :
          Returned("clean_bones", names, clean_bones(bones, active, mode, names))
    /\ UNCHANGED <<active, hostChecks, inScene, meshes, groups, runVars>>

AttachCalls ==
    <<bone_pairs,
      <<<<"Spine", "Chest">>, <<"Left Shoulder", "Left Upper Arm">>, <<"Neck", "Head">>>>,
      <<<<"Upper Chest", "Neck">>, <<"Neck", "Head">>>>,
      <<>>>>

OpAttachBones ==
    /\ nOps < MaxOps
    /\ \E k \in 1..Len(AttachCalls) :
          Returned("attach_bones", AttachCalls[k],
                   attach_bones(bones, active, mode, AttachCalls[k]))
    /\ UNCHANGED <<active, hostChecks, inScene, meshes, groups, runVars>>

OpRenameBones ==
    /\ nOps < MaxOps
    /\ Returned("rename_bones", <<>>, rename_bones(bones, active, mode))
    /\ UNCHANGED <<active, hostChecks, inScene, meshes, groups, runVars>>

OpResetBoneRoll ==
    /\ nOps < MaxOps
    /\ Returned("reset_bone_roll", <<>>, reset_bone_roll(bones, active, mode))
    /\ UNCHANGED <<active, hostChecks, inScene, meshes, groups, runVars>>

\* weight_source_bones of the calls made: convert_genshin's (one source per
\* new joint), a list of two sources, a list naming a group the mesh lacks,
\* and none (the weights come from the original joint's group)
WeightSourceCalls ==
    <<weight_source_bones,
      [n \in {"Left Eye"} |-> <<"+EyeBone L A01", "+EyeBone L A02">>],
      [n \in {"Left Eye"} |-> <<"+EyeBone L A02", "+EyeBone L A03">>],
      <<>>>>

OpDuplicateBones ==
    /\ nOps < MaxOps
    /\ \E mesh_name \in {"Body", ""}, k \in 1..Len(WeightSourceCalls) :
          LET o == duplicate_bones_with_weights(bones, active, mode, inScene, meshes,
                       groups, Verts, bones_to_duplicate, WeightSourceCalls[k], mesh_name)
          IN /\ Returned("duplicate_bones_with_weights",
                         [mesh_name |-> mesh_name,
                          bones_to_duplicate |-> bones_to_duplicate,
                          weight_source_bones |-> WeightSourceCalls[k],
                          groups |-> groups], o)
             /\ groups' = o.groups
             /\ active' = o.active
    /\ UNCHANGED <<hostChecks, inScene, meshes, runVars>>

OpLegacyCleanBones ==
    /\ nOps < MaxOps
    /\ LET o == CleanBones(bones, active, mode, inScene)
       IN /\ Returned("CleanBones", <<>>, o)
          /\ active' = o.active
    /\ UNCHANGED <<hostChecks, inScene, meshes, groups, runVars>>

OpConnectArmature ==
    /\ nOps < MaxOps
    /\ inScene
    /\ \E twist \in BOOLEAN, chest \in BOOLEAN :
          Returned("ConnectArmature", ConnectPairs(twist, chest),
                   ConnectArmature(bones, ConnectPairs(twist, chest)))
    /\ UNCHANGED <<active, hostChecks, inScene, meshes, groups, runVars>>

OpAdjustBoneTails ==
    /\ nOps < MaxOps
    /\ \E exclude \in {{}, custom_exclusions} :
          Returned("adjust_bone_tails_to_connect", exclude,
                   adjust_bone_tails_to_connect(bones, active, mode, hostChecks, exclude))
    /\ UNCHANGED <<active, hostChecks, inScene, meshes, groups, runVars>>

NextOps ==
    \/ OpConnectArmature
    \/ OpAdjustBoneTails
    \/ OpPositionBone
    \/ OpReparentBones
    \/ OpCleanBones
    \/ OpAttachBones
    \/ OpRenameBones
    \/ OpResetBoneRoll
    \/ OpDuplicateBones
    \/ OpLegacyCleanBones

SpecOps == InitOps /\ [][NextOps]_vars

\* the operations that enter the host's EDIT state
EditingOps ==
    {"rename_bones", "reset_bone_roll", "clean_bones", "reparent_bones",
     "position_bone", "attach_bones", "duplicate_bones_with_weights", "CleanBones"}

\* C1: every skeleton operation that has entered EDIT has released it when it
\* returns, so the host is never left in EDIT by a returned operation.
C1_EditReleased == lastOp \in EditingOps => mode # "EDIT"

\* chain reconnection has run over the pair list arg
Reconnected ==
    \/ lastOp = "attach_bones" /\ IsArmature(active) /\ arg # <<>>
    \/ lastOp = "ConnectArmature"

\* pair k of the list has both its joints
BothExist(k) == Has(pre, arg[k][1]) /\ Has(pre, arg[k][2])

\* no later pair with both joints names the parent of pair k again
LastForParent(k) ==
    ~\E j \in (k + 1)..Len(arg) : BothExist(j) /\ arg[j][1] = arg[k][1]

\* no joint but the parents of the pairs with both joints has changed, and
\* those have changed in their tail only
OnlyParentTailsChanged ==
    /\ DOMAIN bones = DOMAIN pre
    /\ \A i \in DOMAIN pre :
          /\ [bones[i] EXCEPT !.tail = pre[i].tail] = pre[i]
          /\ (~\E k \in 1..Len(arg) : BothExist(k) /\ pre[i].name = arg[k][1])
                => bones[i] = pre[i]

\* C10 as stated: every pair whose two joints exist ends with parent.tail =
\* child.head, a pair with a missing joint changes nothing and stops nothing,
\* and attach_bones reports success.
C10_EveryPairAttached ==
    Reconnected =>
        /\ \A k \in 1..Len(arg) :
              BothExist(k) =>
                  bones[Get(bones, arg[k][1])].tail = bones[Get(bones, arg[k][2])].head
        /\ OnlyParentTailsChanged
        /\ lastOp = "attach_bones" => ret = "True"

\* C10, amended: every pair whose two joints exist, and whose parent no later
\* such pair names again, ends with parent.tail = child.head; a pair with a
\* missing joint changes nothing and stops nothing; attach_bones reports success.
C10_LastPairAttached ==
    Reconnected =>
        /\ \A k \in 1..Len(arg) :
              (BothExist(k) /\ LastForParent(k)) =>
                  bones[Get(bones, arg[k][1])].tail = bones[Get(bones, arg[k][2])].head
        /\ OnlyParentTailsChanged
        /\ lastOp = "attach_bones" => ret = "True"

\* a missing pair was skipped and a pair after it was attached
C10_SkippedThenAttached ==
    /\ lastOp = "attach_bones"
    /\ IsArmature(active)
    /\ ret = "True"
    /\ \E k \in 1..Len(arg) : \E j \in (k + 1)..Len(arg) :
          /\ ~BothExist(k)
          /\ BothExist(j)
          /\ bones[Get(bones, arg[j][1])].tail # pre[Get(pre, arg[j][1])].tail
          /\ bones[Get(bones, arg[j][1])].tail = bones[Get(bones, arg[j][2])].head

\* C11: chain reconnection is idempotent: once attach_bones (or the legacy
\* ConnectArmature) has run over a pair list, running it again over the same
\* list leaves every joint, the parents' tails included, as it is.
C11_AttachIdempotent ==
    /\ lastOp = "attach_bones" => attach_bones(bones, active, mode, arg).bones = bones
    /\ lastOp = "ConnectArmature" => ConnectArmature(bones, arg).bones = bones

\* attach_bones has moved a tail over a list in which one pair's child is the
\* next pair's parent
C11_ChainAttached ==
    /\ lastOp = "attach_bones"
    /\ ret = "True"
    /\ bones # pre
    /\ \E k \in 1..Len(arg) : \E j \in (k + 1)..Len(arg) :
          BothExist(k) /\ BothExist(j) /\ arg[k][2] = arg[j][1]

\* the weight vertex v had in group g of the mesh when the operation was called
WeightBefore(g, v) == IF g \in DOMAIN arg.groups THEN arg.groups[g][v] ELSE 0

RECURSIVE SourcesBefore(_, _)
SourcesBefore(sources, v) ==
    IF sources = <<>> THEN 0
    ELSE WeightBefore(Head(sources), v) + SourcesBefore(Tail(sources), v)

\* pair k of bones_to_duplicate got a vertex group in this call, named g
Transferred(k, g) ==
    /\ lastOp = "duplicate_bones_with_weights"
    /\ ret = "True"
    /\ Has(pre, arg.bones_to_duplicate[k][1])
    /\ g \in DOMAIN groups \ DOMAIN arg.groups
    /\ g = (IF arg.bones_to_duplicate[k][2] \in DOMAIN arg.groups
            THEN Suffixed(arg.bones_to_duplicate[k][2])
            ELSE arg.bones_to_duplicate[k][2])

\* the configured sources of pair k's new joint, else its original joint
SourcesOf(k) ==
    IF arg.bones_to_duplicate[k][2] \in DOMAIN arg.weight_source_bones
    THEN arg.weight_source_bones[arg.bones_to_duplicate[k][2]]
    ELSE <<arg.bones_to_duplicate[k][1]>>

\* C12 as stated: after the weight transfer every vertex has in the new
\* joint's group the sum of its weights in the source groups, a missing group
\* or membership counting as 0.
C12_WeightIsSum ==
    \A k \in 1..Len(bones_to_duplicate) : \A g \in DOMAIN groups :
        Transferred(k, g) =>
            \A v \in Verts : groups[g][v] = SourcesBefore(SourcesOf(k), v)

\* C12, amended: every vertex has in the new joint's group the sum of its
\* weights in the source groups, limited to 1 (100 percent); a vertex with no
\* weight in any source has weight 0 in the new group.
C12_WeightIsClampedSum ==
    \A k \in 1..Len(bones_to_duplicate) : \A g \in DOMAIN groups :
        Transferred(k, g) =>
            \A v \in Verts :
                groups[g][v] = (IF SourcesBefore(SourcesOf(k), v) > 100 THEN 100
                                ELSE SourcesBefore(SourcesOf(k), v))

\* weights were transferred from two source groups, one vertex getting their
\* sum and another, in neither group, getting 0
C12_TwoSourcesSummed ==
    \E g \in DOMAIN groups :
        /\ Transferred(1, g)
        /\ Len(SourcesOf(1)) = 2
        /\ \E v \in Verts :
              /\ WeightBefore(SourcesOf(1)[1], v) > 0
              /\ WeightBefore(SourcesOf(1)[2], v) > 0
              /\ groups[g][v] = WeightBefore(SourcesOf(1)[1], v)
                                 + WeightBefore(SourcesOf(1)[2], v)
        /\ \E v \in Verts : SourcesBefore(SourcesOf(1), v) = 0 /\ groups[g][v] = 0

\* C13: given joints named Tail0, Tail1 and Tail3 (no Tail2), chain
\* auto-connect connects Tail0 to Tail1 (Tail0.tail = Tail1.head, Tail1
\* parented and connected to Tail0) and then aborts, leaving Tail3 unchanged.
C13_GapConnectsUpToGap ==
    (/\ lastOp = "adjust_bone_tails_to_connect"
     /\ ret = "True"
     /\ Has(pre, "Tail0") /\ Has(pre, "Tail1") /\ Has(pre, "Tail3")
     /\ ~Has(pre, "Tail2"))
        => /\ bones[Get(bones, "Tail0")].tail = bones[Get(bones, "Tail1")].head
           /\ bones[Get(bones, "Tail1")].parent = Get(bones, "Tail0")
           /\ bones[Get(bones, "Tail1")].use_connect
           /\ bones[Get(bones, "Tail3")] = pre[Get(pre, "Tail3")]

\* the exclusion list the auto-connect call worked with
CallExclusions == IF arg = {} THEN default_exclusions ELSE arg

\* the non-excluded joints of a prefix before the call, by ascending number
ChainBefore(prefix) == SortedChain(pre, ChainIds(pre, CallExclusions, prefix))

NumberOf(i) == ChainKey(pre[i].name).num

\* at least two joints, numbered k, k+1, ..., k+n
GapFree(chain) ==
    /\ Len(chain) >= 2
    /\ \A k \in 1..Len(chain) : NumberOf(chain[k]) = NumberOf(chain[1]) + (k - 1)

AutoConnected == lastOp = "adjust_bone_tails_to_connect" /\ ret = "True"

HeadsKept == \A i \in DOMAIN pre : bones[i].head = pre[i].head

\* every joint of the chain but the last ends on the head of the next, which
\* is its connected child
Linked(chain) ==
    \A k \in 1..(Len(chain) - 1) :
        /\ bones[chain[k]].tail = bones[chain[k + 1]].head
        /\ bones[chain[k + 1]].parent = chain[k]
        /\ bones[chain[k + 1]].use_connect

\* C23: after chain auto-connect, every prefix whose non-excluded joints are
\* numbered consecutively (two or more of them, from any first number) has
\* each joint's tail on the head of the next, the next a connected child of
\* it, and no joint of the skeleton has a moved head.
C23_GapFreeChainLinked ==
    AutoConnected =>
        /\ \A k \in 1..Len(sorted_prefixes) :
               GapFree(ChainBefore(sorted_prefixes[k])) => Linked(ChainBefore(sorted_prefixes[k]))
        /\ HeadsKept

\* two or more joints whose numbers skip one
Gapped(chain) == Len(chain) >= 2 /\ ~GapFree(chain)

\* the joint's tail, parent and connect flag are as before the call
LinkKept(i) ==
    /\ bones[i].tail = pre[i].tail
    /\ bones[i].parent = pre[i].parent
    /\ bones[i].use_connect = pre[i].use_connect

\* C24: after chain auto-connect on a skeleton with a prefix whose numbers
\* skip one, no joint of that prefix has a changed tail, parent or connect
\* flag, and the gap-free chains of the other prefixes are linked.
C24_GappedChainAborted ==
    AutoConnected =>
        \A k \in 1..Len(sorted_prefixes) :
            Gapped(ChainBefore(sorted_prefixes[k])) =>
                /\ \A j \in 1..Len(ChainBefore(sorted_prefixes[k])) :
                       LinkKept(ChainBefore(sorted_prefixes[k])[j])
                /\ \A o \in 1..Len(sorted_prefixes) :
                       GapFree(ChainBefore(sorted_prefixes[o]))
                           => Linked(ChainBefore(sorted_prefixes[o]))

\* the joints whose lower-cased name holds a word of the call's exclusion list
ExcludedJoints == {i \in DOMAIN pre : NameWords(pre[i].name) \cap CallExclusions # {}}

\* C25: after chain auto-connect, every joint whose name contains a word of
\* the exclusion list in any letter case (the default list when none is
\* given) has its head, tail, parent and connect flag as before, and no joint
\* has been given such a joint as its parent.
C25_ExcludedUntouched ==
    AutoConnected =>
        \A i \in ExcludedJoints :
            /\ bones[i].head = pre[i].head
            /\ LinkKept(i)
            /\ \A j \in DOMAIN bones : bones[j].parent = i => pre[j].parent = i

\* a call with the longer list has left the Hair chain apart, its joints
\* unlinked, and has linked the Ribbon chain
C25_HairLeftApart ==
    /\ AutoConnected
    /\ arg = custom_exclusions
    /\ Has(pre, "Hair1") /\ Has(pre, "Hair2")
    /\ {Get(pre, "Hair1"), Get(pre, "Hair2")} \subseteq ExcludedJoints
    /\ bones[Get(bones, "Hair1")].tail # bones[Get(bones, "Hair2")].head
    /\ bones[Get(bones, "Hair2")].parent # Get(bones, "Hair1")
    /\ Linked(ChainBefore("Ribbon"))
    /\ bones # pre

\* the skeleton a second auto-connect call with the same list would leave
ConnectedAgain == adjust_bone_tails_to_connect(bones, active, mode, hostChecks, arg).bones

\* C26: once chain auto-connect has run, running it again with the same
\* exclusion list leaves every joint's head, tail, parent and connect flag as
\* the first run left them.
C26_AutoConnectIdempotent ==
    AutoConnected =>
        \A i \in DOMAIN bones :
            /\ ConnectedAgain[i].head = bones[i].head
            /\ ConnectedAgain[i].tail = bones[i].tail
            /\ ConnectedAgain[i].parent = bones[i].parent
            /\ ConnectedAgain[i].use_connect = bones[i].use_connect

\* the operations of this part that assign a joint's parent
ReparentingOps == {"reparent_bones", "adjust_bone_tails_to_connect"}

C30_PositionAllOrNothing ==
    (lastOp = "position_bone" /\ ret = "False") =>
        \A i \in DOMAIN pre :
            /\ i \in DOMAIN bones
            /\ bones[i].head = pre[i].head
            /\ bones[i].tail = pre[i].tail

\* the entries of the call's bones_to_duplicate whose joint existed
PresentEntries == {k \in 1..Len(arg.bones_to_duplicate) : Has(pre, arg.bones_to_duplicate[k][1])}

\* joint i is a copy of the joint named orig as it was before the call
CopyOf(i, orig) ==
    LET o == pre[Get(pre, orig)]
    IN /\ bones[i].head = o.head
       /\ bones[i].tail = o.tail
       /\ bones[i].roll = o.roll
       /\ bones[i].parent = o.parent

\* the joints that were there before the call are as they were
OriginalsKept ==
    \A i \in DOMAIN pre :
        /\ i \in DOMAIN bones
        /\ bones[i].name = pre[i].name
        /\ bones[i].head = pre[i].head
        /\ bones[i].tail = pre[i].tail
        /\ bones[i].roll = pre[i].roll
        /\ bones[i].parent = pre[i].parent

\* the weight groups that were there before the call are as they were
GroupsKept == \A g \in DOMAIN arg.groups : g \in DOMAIN groups /\ groups[g] = arg.groups[g]

\* C22: after a duplication that returned True, every entry whose joint
\* existed has a new joint with the original's head, tail, roll and parent
\* that deforms; no other joint was created; the joints and the weight
\* groups that were there before are unchanged.
C22_Duplicated ==
    (lastOp = "duplicate_bones_with_weights" /\ ret = "True") =>
        /\ \A k \in PresentEntries :
               \E i \in DOMAIN bones \ DOMAIN pre :
                   CopyOf(i, arg.bones_to_duplicate[k][1]) /\ bones[i].use_deform
        /\ Cardinality(DOMAIN bones \ DOMAIN pre) = Cardinality(PresentEntries)
        /\ OriginalsKept
        /\ GroupsKept

\* ------------------------------------------------------------ the legacy resolver run (SetupArmature)

\* a rig without a Neck whose Head begins at the height the Chest will end
\* at, straight above it or y in front of it
NecklessRig(y) ==
    LET bs == Without(LegacyRig("Hips", 9000, 9000, 10000, FALSE), {"Neck"})
    IN [bs EXCEPT ![Get(bs, "Head")].head = <<0, y, 11600>>]

LegacyRigs ==
    {Without(LegacyRig(first, 9000, rz, sz, loose), absent) :
        first \in {"Hips", "Bip001"}, rz \in {9000, 9400}, sz \in {8700, 10000},
        loose \in BOOLEAN, absent \in {{}, {"Neck"}, {"Right knee"}}}
    \cup {NecklessRig(0), NecklessRig(100)}

InitLegacy ==
    /\ bones \in LegacyRigs
    /\ mode = "OBJECT"
    /\ active = "ARMATURE"
    /\ inScene = TRUE
    /\ hostChecks \in BOOLEAN
    /\ meshes = {}
    /\ groups = <<>>
    /\ lastOp = ""
    /\ ret = "None"
    /\ pre = bones
    /\ arg = <<>>
    /\ nOps = 0
    /\ pc = "SetupArmature"
    /\ log = <<>>
    /\ result = "none"
    /\ input \in [humanoid_armature_fix : BOOLEAN]
    /\ marker = FALSE
    /\ scene_settings = DefaultScene

\* the step at position step has run, leaving the skeleton bs2, and next follows
Did(step, bs2, next) ==
    /\ pc = step
    /\ bones' = bs2
    /\ pre' = bones
    /\ lastOp' = step
    /\ log' = Append(log, step)
    /\ pc' = next
    /\ UNCHANGED <<mode, active, hostChecks, ret, arg, nOps, inScene, meshes, groups,
                   result, input, marker, scene_settings>>

\* blender_utils.ChangeMode("EDIT") and the humanoid_armature_fix test
SetupEnterEdit ==
    /\ pc = "SetupArmature"
    /\ mode' = "EDIT"
    /\ pc' = IF input.humanoid_armature_fix THEN "RenameFirst" ELSE "ChangeMode"
    /\ UNCHANGED <<bones, active, hostChecks, lastOp, ret, pre, arg, nOps, inScene,
                   meshes, groups, log, result, input, marker, scene_settings>>

\* edit_bones[0]
FirstBone(bs) == CHOOSE i \in DOMAIN bs : \A j \in DOMAIN bs : i <= j

SetupRenameFirst ==
    Did("RenameFirst",
        IF bones[FirstBone(bones)].name # "Hips"
        THEN SetName(bones, FirstBone(bones), "Hips")
        ELSE bones,
        "SetHipAsParent")

SetupSetHipAsParent ==
    Did("SetHipAsParent", SetHipAsParent(bones, hostChecks), "RenameSpines")

SetupRenameSpines ==
    Did("RenameSpines", RenameSpines(bones, <<"Spine", "Chest", "Upper Chest">>),
        "GetBones")

\* the nine-way unpacking of GetBones(...).values() raises unless all nine exist
SetupGetBones ==
    /\ pc = "GetBones"
    /\ IF Len(GetBones(bones, SetupBoneNames)) = Len(SetupBoneNames)
       THEN pc' = "FixHips" /\ result' = result
       ELSE pc' = "raised" /\ result' = "raised"
    /\ UNCHANGED <<bones, mode, active, hostChecks, lastOp, ret, pre, arg, nOps,
                   inScene, meshes, groups, log, input, marker, scene_settings>>

SetupFixHips == Did("FixHips", FixHips(bones), "FixSpine")

SetupFixSpine == Did("FixSpine", FixSpine(bones), "FixChest")

SetupFixChest == Did("FixChest", FixChest(bones), "FixUpperChest")

SetupFixUpperChest == Did("FixUpperChest", FixUpperChest(bones), "AdjustLegs")

SetupAdjustLegs == Did("AdjustLegs", AdjustLegs(bones), "StraightenHead")

SetupStraightenHead == Did("StraightenHead", StraightenHead(bones), "FixMissingNeck")

SetupFixMissingNeck == Did("FixMissingNeck", FixMissingNeck(bones), "SetBoneRollToZero")

SetupSetBoneRollToZero ==
    Did("SetBoneRollToZero", SetBoneRollToZero(bones), "ChangeMode")

\* blender_utils.ChangeMode("OBJECT"): the run has completed
SetupChangeMode ==
    /\ pc = "ChangeMode"
    /\ mode' = "OBJECT"
    /\ pc' = "done"
    /\ result' = "None"
    /\ UNCHANGED <<bones, active, hostChecks, lastOp, ret, pre, arg, nOps, inScene,
                   meshes, groups, log, input, marker, scene_settings>>

NextLegacy ==
    \/ SetupEnterEdit
    \/ SetupRenameFirst
    \/ SetupSetHipAsParent
    \/ SetupRenameSpines
    \/ SetupGetBones
    \/ SetupFixHips
    \/ SetupFixSpine
    \/ SetupFixChest
    \/ SetupFixUpperChest
    \/ SetupAdjustLegs
    \/ SetupStraightenHead
    \/ SetupFixMissingNeck
    \/ SetupSetBoneRollToZero
    \/ SetupChangeMode

SpecLegacy == InitLegacy /\ [][NextLegacy]_vars

C8_OneRootWhenDone ==
    (pc = "done" /\ input.humanoid_armature_fix) => Cardinality(Roots(bones)) = 1

\* C9: after a structural positioning step the positioned joint's tail differs
\* from its head.
C9_NoZeroLength ==
    /\ lastOp = "FixHips" => bones[Get(bones, "Hips")].tail # bones[Get(bones, "Hips")].head
    /\ lastOp = "FixSpine" => bones[Get(bones, "Spine")].tail # bones[Get(bones, "Spine")].head
    /\ lastOp = "FixChest" => bones[Get(bones, "Chest")].tail # bones[Get(bones, "Chest")].head
    /\ lastOp = "FixUpperChest" =>
           bones[Get(bones, "Upper Chest")].tail # bones[Get(bones, "Upper Chest")].head

\* C21: when FixMissingNeck runs on a skeleton with Chest and Head but no
\* Neck, it creates Neck with its head on the Chest's tail and its tail on
\* Head's head, the tail lifted by the nudge exactly when the two points are
\* the same; when Neck exists already the skeleton is unchanged.
C21_NeckSynthesized ==
    lastOp = "FixMissingNeck" =>
        IF ~Has(pre, "Neck") /\ Has(pre, "Chest") /\ Has(pre, "Head")
        THEN LET h == pre[Get(pre, "Chest")].tail
                 t == pre[Get(pre, "Head")].head
             IN /\ Has(bones, "Neck")
                /\ bones[Get(bones, "Neck")].head = h
                /\ bones[Get(bones, "Neck")].tail =
                       IF h = t THEN <<t[X], t[Y], t[Z] + 1000>> ELSE t
        ELSE bones = pre

\* ------------------------------------------------------------ classification

SUPPORTED_GAMES ==
    {"Genshin Impact", "Genshin Impact Weapon", "Honkai Star Rail",
     "Honkai Impact 3rd", "Zenless Zone Zero", "Wuthering Waves"}

\* the games whose pipeline resolves a character skeleton
CharacterGames == SUPPORTED_GAMES \ {"Genshin Impact Weapon"}

\* GameDetector.identify_model(name).game, on the object names the model uses
identify_model(name) ==
    CASE name = "Avatar_Girl_Sword_Lumine" -> "Genshin Impact"
      [] name = "Avatar_Female_Size02_Anbi" -> "Zenless Zone Zero"
      [] name = "Avatar_Kafka_00" -> "Honkai Star Rail"
      [] name = "Avatar_Kiana_C1_YN" -> "Honkai Impact 3rd"
      [] name = "R2T1ChixiaMd10011" -> "Wuthering Waves"
      [] name = "Equip_Sword_Blunt" -> "Genshin Impact Weapon"
      [] OTHER -> "NPC"

\* GameDetector.is_legacy_hi3_model(context)
is_legacy_hi3_model(ms) == {"Eye_L", "Eye_R", "Mouth"} \cap ms # {}

\* get_model_info(obj_name): the classification alone
get_model_info(name) == [game |-> identify_model(name), is_legacy |-> FALSE]

\* GameDetector.get_model_name(context)[0]: what the operator supplies
get_model_name(act, name, ms) ==
    IF act = "NONE" THEN [game |-> "", is_legacy |-> FALSE]
    ELSE [game |-> identify_model(name),
          is_legacy |-> (identify_model(name) = "Honkai Impact 3rd"
                         /\ is_legacy_hi3_model(ms))]

\* ------------------------------------------------------------ the pipelines' steps

Opt(c, step) == IF c THEN <<step>> ELSE <<>>

StructuralSteps ==
    <<"position_bone Hips", "position_bone Spine", "position_bone Chest",
      "position_bone Upper Chest">>

EyeSteps == <<"position_bone Left Eye", "position_bone Right Eye">>

ShapeKeySteps(st) ==
    Opt(st.generate_shape_keys, "generate_shape_keys")
    \o Opt(st.generate_shape_keys_mmd, "generate_shape_keys_mmd")

\* a variant of convert_genshin that reconnects the chains before the Upper
\* Chest is positioned and positions the eyes before they are duplicated
convert_genshin_reordered(st) ==
    <<"remove_empties", "clear_rotation", "clean_meshes", "set_wireframe_display",
      "set_material_view", "rename_bones", "rename_armature_data", "reset_bone_roll",
      "clean_bones", "reparent_bones", "position_bone Hips", "position_bone Spine",
      "position_bone Chest", "attach_bones", "position_bone Upper Chest">>
    \o ShapeKeySteps(st)
    \o EyeSteps
    \o <<"duplicate_bones_with_weights", "set_root_name", "cleanup_selection">>

convert_genshin(st) ==
    <<"remove_empties", "clear_rotation", "clean_meshes", "set_wireframe_display",
      "set_material_view", "rename_bones", "rename_armature_data", "reset_bone_roll",
      "clean_bones", "reparent_bones">>
    \o StructuralSteps
    \o <<"attach_bones">>
    \o ShapeKeySteps(st)
    \o <<"duplicate_bones_with_weights">>
    \o EyeSteps
    \o <<"merge_meshes_by_distance", "assign_modified_material", "reorder_uv_maps",
         "move_armature_to_ground">>
    \o Opt(st.merge_all_meshes, "merge_all_meshes")
    \o <<"fix_materials", "fix_material_textures", "duplicate_material_json",
         "set_root_name", "cleanup_selection">>

convert_genshin_weapons(st) ==
    <<"remove_empties", "clear_rotation", "clean_meshes", "set_wireframe_display",
      "set_material_view", "reset_bone_roll", "reorder_uv_maps">>
    \o Opt(st.merge_all_meshes, "merge_all_meshes")
    \o <<"fix_materials", "fix_material_textures", "set_root_name", "cleanup_selection">>

convert_starrail(st) ==
    <<"remove_empties", "clear_rotation", "clean_meshes", "set_wireframe_display",
      "set_material_view", "face_rig_to_shapekey">>
    \o ShapeKeySteps(st)
    \o <<"clear_animations", "rename_bones", "symmetrize_bones", "rename_armature_data",
         "reset_bone_roll", "clean_bones">>
    \o StructuralSteps
    \o <<"attach_bones", "duplicate_bones_with_weights">>
    \o EyeSteps
    \o <<"reparent_bones", "reorder_uv_maps", "merge_and_weight_meshes",
         "separate_bangs_by_armature", "fix_materials", "fix_material_textures",
         "duplicate_material_json", "move_armature_to_ground">>
    \o Opt(st.merge_all_meshes, "merge_all_meshes")
    \o <<"set_root_name", "cleanup_selection">>

convert_hi3(st) ==
    <<"remove_empties", "clear_rotation", "clean_meshes", "set_wireframe_display",
      "set_material_view", "rename_bones", "rename_armature_data", "reset_bone_roll",
      "clean_bones", "reparent_bones">>
    \o StructuralSteps
    \o <<"attach_bones">>
    \o ShapeKeySteps(st)
    \o <<"duplicate_bones_with_weights">>
    \o EyeSteps
    \o <<"merge_meshes_by_distance", "reorder_uv_maps", "move_armature_to_ground">>
    \o Opt(st.merge_all_meshes, "merge_all_meshes")
    \o <<"fix_materials", "fix_material_textures", "set_root_name", "cleanup_selection">>

convert_zzz(st) ==
    <<"remove_empties", "clear_rotation", "clean_meshes", "rename_meshes",
      "set_wireframe_display", "set_material_view", "rename_bones",
      "rename_armature_data", "reset_bone_roll", "clean_bones">>
    \o StructuralSteps
    \o <<"attach_bones", "adjust_bone_tails_to_connect">>
    \o ShapeKeySteps(st)
    \o <<"read_eye_bones", "duplicate_bones_with_weights">>
    \o EyeSteps
    \o <<"convert_vertex_colors_to_uv", "reorder_uv_maps", "move_armature_to_ground">>
    \o Opt(st.merge_all_meshes, "merge_all_meshes")
    \o <<"fix_materials", "fix_material_textures", "duplicate_material_json",
         "set_root_name", "cleanup_selection">>

convert_wuwa(st) ==
    <<"scale_model", "set_wireframe_display", "set_material_view", "rename_bones",
      "rename_armature_data", "reset_bone_roll", "read_bones_to_remove", "clean_bones">>
    \o StructuralSteps
    \o <<"attach_bones", "fix_wuwa_fingers", "rename_mesh", "separate_wuwa_eyes",
         "create_eye_bones", "merge_meshes">>
    \o ShapeKeySteps(st)
    \o <<"move_armature_to_ground", "reorder_uv_maps", "set_root_name",
         "cleanup_selection">>

\* the steps convert_model's dispatch runs for a supported game
Pipeline(game, st) ==
    CASE game = "Genshin Impact" -> convert_genshin(st)
      [] game = "Genshin Impact Weapon" -> convert_genshin_weapons(st)
      [] game = "Honkai Star Rail" -> convert_starrail(st)
      [] game = "Honkai Impact 3rd" -> convert_hi3(st)
      [] game = "Zenless Zone Zero" -> convert_zzz(st)
      [] game = "Wuthering Waves" -> convert_wuwa(st)
      [] OTHER -> <<>>

\* ------------------------------------------------------------ the arguments each pipeline passes

\* the first joint when it is not Hips (convert_zzz, convert_wuwa)
FirstIfNotHips(bs, act) ==
    IF IsArmature(act) /\ DOMAIN bs # {} /\ bs[FirstBone(bs)].name # "Hips"
    THEN {bs[FirstBone(bs)].name}
    ELSE {}

CleanArgs(game, bs, act) ==
    CASE game = "Honkai Star Rail" -> {"Main", "joint_skin_GRP"}
      [] game = "Zenless Zone Zero" ->
            {"Root.001", "Root", "Root.002", "FX_Root", "FaceShadowPoint"}
            \cup FirstIfNotHips(bs, act)
      [] game = "Wuthering Waves" -> {"WeaponProp00", "Root.001"} \cup FirstIfNotHips(bs, act)
      [] OTHER -> {"Root"}

ReparentArgs(game) ==
    CASE game = "Honkai Star Rail" ->
            [keys |-> <<"Left Eye", "Right Eye">>, new_parent |-> "Head"]
      [] game = "Honkai Impact 3rd" ->
            [keys |-> <<"Bone_C1_Bip_Root", "Bone_PelvisTwist", "Bone_Pelvis_Twist">>,
             new_parent |-> "Hips"]
      [] OTHER -> [keys |-> <<"+PelvisTwist CF A01">>, new_parent |-> "Hips"]

\* each pipeline's bone_pairs for the joints the model uses, in dictionary order
AttachArgs(game) ==
    CASE game = "Honkai Star Rail" ->
            <<<<"Neck", "Head">>, <<"Left Shoulder", "Left Upper Arm">>,
              <<"Upper Chest", "Neck">>, <<"Left Upper Leg", "Left Lower Leg">>>>
      [] game \in {"Zenless Zone Zero", "Wuthering Waves"} ->
            <<<<"Left Shoulder", "Left Upper Arm">>, <<"Upper Chest", "Neck">>,
              <<"Neck", "Head">>, <<"Left Upper Leg", "Left Lower Leg">>>>
      [] OTHER -> bone_pairs

\* each pipeline's bones_to_duplicate, weight_source_bones and mesh name
DuplicateArgs(game, bs, ms) ==
    CASE game = "Honkai Star Rail" ->
            [dup |-> <<<<"eye_L", "Left Eye">>, <<"eye_R", "Right Eye">>>>,
             sources |-> [n \in {"Left Eye", "Right Eye"} |->
                             IF n = "Left Eye" THEN <<"eyeEnd_L", "eyeEnd_01_L">>
                             ELSE <<"eyeEnd_R", "eyeEnd_01_R">>],
             mesh |-> "Face"]
      [] game = "Honkai Impact 3rd" ->
            [dup |-> <<<<"Bone_Eye_L_01", "Left Eye">>, <<"Bone_Eye_R_01", "Right Eye">>>>,
             sources |-> [n \in {"Left Eye", "Right Eye"} |->
                             IF n = "Left Eye" THEN <<"Bone_Eye_L_End">>
                             ELSE <<"Bone_Eye_R_End">>],
             mesh |-> "EyeShape"]
      [] game = "Zenless Zone Zero" ->
            IF Has(bs, "Skn_L_Eye") \/ Has(bs, "Skn_R_Eye")
            THEN [dup |-> <<<<"Skn_L_Eye", "Left Eye">>, <<"Skn_R_Eye", "Right Eye">>>>,
                  sources |-> [n \in {"Left Eye", "Right Eye"} |->
                                  IF n = "Left Eye" THEN <<"Skn_L_Eye", "Skn_L_Highlights">>
                                  ELSE <<"Skn_R_Eye", "Skn_R_Highlights">>],
                  mesh |-> "Face"]
            ELSE [dup |-> <<<<"Bdy_R_Eye", "Right Eye">>, <<"Bdy_L_Eye", "Left Eye">>>>,
                  sources |-> [n \in {"Left Eye", "Right Eye"} |->
                                  IF n = "Left Eye" THEN <<"Bdy_L_Eye", "Bdy_L_Highlights">>
                                  ELSE <<"Bdy_R_Eye", "Bdy_R_Highlights">>],
                  mesh |-> "Face"]
      [] OTHER ->
            [dup |-> bones_to_duplicate,
             sources |-> weight_source_bones,
             mesh |-> IF "Pupil" \in ms THEN "Pupil" ELSE "Body"]

PositionArgs(step) ==
    CASE step = "position_bone Hips" -> HipsCall
      [] step = "position_bone Spine" -> SpineCall
      [] step = "position_bone Chest" -> ChestCall
      [] step = "position_bone Upper Chest" -> UpperChestCall
      [] step = "position_bone Left Eye" -> EyeCall("Left Eye")
      [] OTHER -> EyeCall("Right Eye")

\* the steps whose effect on the skeleton the model resolves
SkeletonSteps ==
    {"rename_bones", "reset_bone_roll", "clean_bones", "reparent_bones", "attach_bones",
     "duplicate_bones_with_weights", "position_bone Hips", "position_bone Spine",
     "position_bone Chest", "position_bone Upper Chest", "position_bone Left Eye",
     "position_bone Right Eye"}

\* the steps that run outside any try block of their own
UnguardedSteps ==
    {"clear_rotation", "rename_bones", "reset_bone_roll", "separate_bangs_by_armature",
     "clean_meshes", "scale_model", "remove_empties", "set_wireframe_display",
     "set_material_view", "set_root_name", "cleanup_selection", "read_eye_bones",
     "read_bones_to_remove"}

\* what a call hands back, with the vertex groups and the active object
Lift(o, gs, act) ==
    [bones |-> o.bones, mode |-> o.mode, ret |-> o.ret, groups |-> gs, active |-> act]

\* one skeleton step of a pipeline, with the arguments that pipeline passes
SkeletonStep(step, game, bs, act, m, checks, scene, ms, gs, verts) ==
    CASE step = "rename_bones" -> Lift(rename_bones(bs, act, m), gs, act)
      [] step = "reset_bone_roll" -> Lift(reset_bone_roll(bs, act, m), gs, act)
      [] step = "clean_bones" ->
            Lift(clean_bones(bs, act, m, CleanArgs(game, bs, act)), gs, act)
      [] step = "reparent_bones" ->
            Lift(reparent_bones(bs, act, m, checks, ReparentArgs(game).keys,
                                ReparentArgs(game).new_parent), gs, act)
      [] step = "attach_bones" -> Lift(attach_bones(bs, act, m, AttachArgs(game)), gs, act)
      [] step = "duplicate_bones_with_weights" ->
            duplicate_bones_with_weights(bs, act, m, scene, ms, gs, verts,
                DuplicateArgs(game, bs, ms).dup, DuplicateArgs(game, bs, ms).sources,
                DuplicateArgs(game, bs, ms).mesh)
      [] OTHER ->
            Lift(position_bone(bs, act, m, PositionArgs(step).target,
                               PositionArgs(step).refs, PositionArgs(step).rules), gs, act)

\* ------------------------------------------------------------ convert_model

\* the raw name of the left eye joint in each game's rigs
EyeSource(game) ==
    CASE game = "Honkai Star Rail" -> "eye_L"
      [] game = "Honkai Impact 3rd" -> "Bone_Eye_L_01"
      [] game = "Zenless Zone Zero" -> "Skn_L_Eye"
      [] OTHER -> "+EyeBone L A01"

\* the vertex groups the eye weights are taken from in each game's rigs
EyeSourceGroups(game) ==
    CASE game = "Honkai Star Rail" -> {"eyeEnd_L", "eyeEnd_01_L"}
      [] game = "Honkai Impact 3rd" -> {"Bone_Eye_L_End"}
      [] game = "Zenless Zone Zero" -> {"Skn_L_Eye", "Skn_L_Highlights"}
      [] OTHER -> {"+EyeBone L A02"}

\* an imported rig of the game: raw names, the game's eye joint
GameRig(game) ==
    [i \in DOMAIN Rig(9000, 9000, 10000) |->
        IF Rig(9000, 9000, 10000)[i].name = "+EyeBone L A01"
        THEN [Rig(9000, 9000, 10000)[i] EXCEPT !.name = EyeSource(game)]
        ELSE Raw(Rig(9000, 9000, 10000))[i]]

GameGroups(game, verts) ==
    [g \in EyeSourceGroups(game) |-> [v \in verts |-> IF v = 1 THEN 60 ELSE 0]]

ObjNames ==
    {"Avatar_Girl_Sword_Lumine", "Avatar_Female_Size02_Anbi", "Avatar_Kafka_00",
     "Avatar_Kiana_C1_YN", "R2T1ChixiaMd10011", "Equip_Sword_Blunt", "Cube"}

BaseMeshes == {"Body", "Face", "EyeShape"}

\* the scene's four settings
SceneSettings ==
    {[merge_all_meshes |-> a, generate_shape_keys |-> a,
      generate_shape_keys_mmd |-> b, keep_star_eye_mesh |-> b] :
        a \in BOOLEAN, b \in BOOLEAN}

Init ==
    /\ \E c \in {<<"ARMATURE", TRUE>>, <<"MESH", TRUE>>, <<"NONE", TRUE>>,
                 <<"NONE", FALSE>>} :
          active = c[1] /\ inScene = c[2]
    /\ meshes \in {BaseMeshes, BaseMeshes \cup {"Eye_L"}, BaseMeshes \cup {"EyeStar"}}
    /\ \E name \in ObjNames, supplied \in BOOLEAN, ok \in BOOLEAN, sc \in SceneSettings,
          absent \in {{}, {"Bip001 Pelvis"}} :
          /\ input = [name |-> name, supplied |-> supplied, settings_ok |-> ok,
                      scene |-> sc, active |-> active, meshes |-> meshes]
          /\ bones = Without(GameRig(identify_model(name)), absent)
          /\ groups = GameGroups(identify_model(name), Verts)
    /\ mode = "OBJECT"
    /\ hostChecks = TRUE
    /\ lastOp = ""
    /\ ret = "None"
    /\ pre = bones
    /\ arg = <<>>
    /\ nOps = 0
    /\ pc = "call"
    /\ log = <<>>
    /\ result = "none"
    /\ marker = FALSE
    /\ scene_settings = input.scene

\* convert_model has returned r (or let an exception escape: "raised")
Returns(r) == result' = r /\ pc' = "returned"

\* convert_model, up to the settings: the ModelInfo it works with
ConvertModelEnter ==
    /\ pc = "call"
    /\ IF ~input.supplied /\ active = "NONE"
       THEN Returns("False") /\ arg' = arg
       ELSE /\ pc' = "settings"
            /\ result' = result
            /\ arg' = [model_info |->
                          IF input.supplied
                          THEN get_model_name(active, input.name, meshes)
                          ELSE get_model_info(input.name)]
    /\ UNCHANGED <<bones, mode, active, hostChecks, lastOp, ret, pre, nOps, inScene,
                   meshes, groups, log, input, marker, scene_settings>>

\* the settings dictionary, read from the scene before the try block
ConvertModelReadSettings ==
    /\ pc = "settings"
    /\ IF input.settings_ok
       THEN /\ pc' = "dispatch"
            /\ result' = result
            /\ arg' = [model_info |-> arg.model_info, settings |-> scene_settings]
       ELSE Returns("raised") /\ arg' = arg
    /\ UNCHANGED <<bones, mode, active, hostChecks, lastOp, ret, pre, nOps, inScene,
                   meshes, groups, log, input, marker, scene_settings>>

\* the dispatch on model_info.game and the head of the converter it selects
ConvertModelDispatch ==
    /\ pc = "dispatch"
    /\ IF arg.model_info.game \notin SUPPORTED_GAMES
       THEN Returns("False") /\ marker' = marker
       ELSE IF arg.model_info.game = "Honkai Impact 3rd" /\ arg.model_info.is_legacy
       THEN Returns("False") /\ marker' = marker
       ELSE /\ pc' = "steps"
            /\ result' = result
            /\ marker' = (marker
                          \/ IsArmature(active)
                          \/ (arg.model_info.game = "Genshin Impact Weapon"
                              /\ active = "MESH"))
    /\ UNCHANGED <<bones, mode, active, hostChecks, lastOp, ret, pre, arg, nOps, inScene,
                   meshes, groups, log, input, scene_settings>>

Steps == Pipeline(arg.model_info.game, arg.settings)

NextStep == Steps[nOps + 1]

\* a step that raises where the step as modelled runs on
MustRaise(step) ==
    \/ step \in {"read_eye_bones", "read_bones_to_remove"} /\ ~IsArmature(active)
    \/ step = "cleanup_selection" /\ mode # "OBJECT" /\ active = "NONE"

\* a skeleton step of the selected converter
PipelineSkeletonStep ==
    /\ pc = "steps"
    /\ nOps < Len(Steps)
    /\ NextStep \in SkeletonSteps
    /\ LET o == SkeletonStep(NextStep, arg.model_info.game, bones, active, mode,
                             hostChecks, inScene, meshes, groups, Verts)
       IN /\ bones' = o.bones
          /\ mode' = o.mode
          /\ ret' = o.ret
          /\ groups' = o.groups
          /\ active' = o.active
    /\ lastOp' = NextStep
    /\ log' = Append(log, NextStep)
    /\ nOps' = nOps + 1
    /\ UNCHANGED <<hostChecks, pre, arg, inScene, meshes, pc, result, input, marker, scene_settings>>

\* a step on the scene, the meshes or the materials.  clean_meshes reads
\* keep_star_eye_mesh from the scene; set_root_name makes the scene's armature
\* (else its first mesh) active; cleanup_selection restores OBJECT and clears
\* the active object.
PipelineHostStep ==
    /\ pc = "steps"
    /\ nOps < Len(Steps)
    /\ NextStep \notin SkeletonSteps
    /\ ~MustRaise(NextStep)
    /\ meshes' = IF NextStep = "clean_meshes" /\ ~scene_settings.keep_star_eye_mesh
                 THEN meshes \ {"EyeStar"} ELSE meshes
    /\ active' = CASE NextStep = "set_root_name" ->
                        (IF inScene THEN "ARMATURE"
                         ELSE IF meshes # {} THEN "MESH" ELSE active)
                   [] NextStep = "cleanup_selection" -> "NONE"
                   [] OTHER -> active
    /\ mode' = IF NextStep = "cleanup_selection" THEN "OBJECT" ELSE mode
    /\ lastOp' = NextStep
    /\ ret' = "None"
    /\ log' = Append(log, NextStep)
    /\ nOps' = nOps + 1
    /\ UNCHANGED <<bones, hostChecks, pre, arg, inScene, groups, pc, result, input,
                   marker, scene_settings>>

\* a step raises; convert_model's except clause returns False
PipelineStepRaises ==
    /\ pc = "steps"
    /\ nOps < Len(Steps)
    /\ NextStep \in UnguardedSteps
    /\ lastOp' = NextStep
    /\ ret' = "None"
    /\ log' = Append(log, NextStep)
    /\ nOps' = nOps + 1
    /\ Returns("False")
    /\ UNCHANGED <<bones, mode, active, hostChecks, pre, arg, inScene, meshes, groups,
                   input, marker, scene_settings>>

\* the converter returns True; convert_model marks the active object
ConvertModelReturn ==
    /\ pc = "steps"
    /\ nOps = Len(Steps)
    /\ Returns("True")
    /\ marker' = (marker \/ active # "NONE")
    /\ UNCHANGED <<bones, mode, active, hostChecks, lastOp, ret, pre, arg, nOps, inScene,
                   meshes, groups, log, input, scene_settings>>

\* the scene's properties are not the converter's own: while a pipeline runs,
\* a handler of the host or of another add-on may set them
SceneSettingsChange ==
    /\ pc = "steps"
    /\ nOps < Len(Steps)
    /\ scene_settings' \in SceneSettings \ {scene_settings}
    /\ UNCHANGED <<bones, mode, active, hostChecks, lastOp, ret, pre, arg, nOps, inScene,
                   meshes, groups, pc, log, result, input, marker>>

Next ==
    \/ ConvertModelEnter
    \/ ConvertModelReadSettings
    \/ ConvertModelDispatch
    \/ PipelineSkeletonStep
    \/ PipelineHostStep
    \/ PipelineStepRaises
    \/ ConvertModelReturn
    \/ SceneSettingsChange

Spec == Init /\ [][Next]_vars

\* ------------------------------------------------------------ properties of convert_model

\* the game of the ModelInfo convert_model works with
ModelGame ==
    IF input.supplied
    THEN get_model_name(input.active, input.name, input.meshes).game
    ELSE identify_model(input.name)

Untouched == bones = pre /\ meshes = input.meshes /\ groups = GameGroups(identify_model(input.name), Verts)

\* C2: convert_model yields a boolean whatever the input and whatever its
\* collaborators do: when reading the settings or a step raises, it returns
\* False and no exception reaches the caller.
C2_AlwaysBoolean == pc = "returned" => result \in {"True", "False"}

\* C3: with no armature to work on (the active object absent or not an
\* armature) the conversion of a character game is aborted: convert_model
\* returns False and no pipeline step is executed.
C3_NoArmatureAborts ==
    (~IsArmature(input.active) /\ ModelGame \in CharacterGames /\ input.settings_ok)
        => /\ log = <<>>
           /\ pc = "returned" => result = "False"

\* C4: a scene classified as Honkai Impact 3rd that holds a mesh named Eye_L,
\* Eye_R or Mouth is refused whether or not a ModelInfo is supplied:
\* convert_model returns False and no joint or mesh is modified.
C4_LegacyRefused ==
    (identify_model(input.name) = "Honkai Impact 3rd"
     /\ is_legacy_hi3_model(input.meshes) /\ input.active # "NONE" /\ input.settings_ok)
        => /\ Untouched
           /\ pc = "returned" => result = "False"

\* C5: a ModelInfo whose game is not a supported one (the fallback
\* classification included) makes convert_model return False without running
\* a step and without modifying the skeleton or the meshes.
C5_UnsupportedRefused ==
    (ModelGame \notin SUPPORTED_GAMES /\ pc = "returned")
        => result = "False" /\ log = <<>> /\ Untouched

Before(k, steps) == \E j \in 1..(k - 1) : log[j] \in steps

\* C6: in every character pipeline the joints are renamed before any
\* structural positioning, Hips, Spine, Chest and Upper Chest are all
\* positioned before attach_bones, and the eye joints are created or
\* duplicated before an eye is repositioned.
C6_StepOrder ==
    \A k \in 1..Len(log) :
        /\ (\E i \in 1..Len(StructuralSteps) : log[k] = StructuralSteps[i])
              => Before(k, {"rename_bones"})
        /\ log[k] = "attach_bones"
              => \A i \in 1..Len(StructuralSteps) : Before(k, {StructuralSteps[i]})
        /\ (\E i \in 1..Len(EyeSteps) : log[k] = EyeSteps[i])
              => Before(k, {"duplicate_bones_with_weights", "create_eye_bones"})

\* a character conversion that ran to its end, the eyes repositioned
C6_PipelineCompleted ==
    /\ pc = "returned"
    /\ result = "True"
    /\ ModelGame \in CharacterGames
    /\ \E k \in 1..Len(log) : log[k] = "attach_bones"
    /\ \E k \in 1..Len(log) : log[k] = "position_bone Right Eye"

\* C29: when convert_model has returned False, the call has not set the
\* converted marker on any object.
C29_MarkerOnlyOnSuccess == (pc = "returned" /\ result = "False") => ~marker

\* ---------------------------------------------------------------------------
\* names as character sequences: the name normalizers and the model classifier
\* work on the characters of a name, so a name is the tuple of its characters
\* ---------------------------------------------------------------------------

Lowers == <<"a","b","c","d","e","f","g","h","i","j","k","l","m","n","o","p","q","r","s","t","u","v","w","x","y","z">>

Uppers == <<"A","B","C","D","E","F","G","H","I","J","K","L","M","N","O","P","Q","R","S","T","U","V","W","X","Y","Z">>

IsLower(c) == \E i \in 1..26 : Lowers[i] = c

IsUpper(c) == \E i \in 1..26 : Uppers[i] = c

IsLetter(c) == IsLower(c) \/ IsUpper(c)

IsDigit(c) == c \in {"0", "1", "2", "3", "4", "5", "6", "7", "8", "9"}

\* the regular expression class \w
IsWord(c) == IsLetter(c) \/ IsDigit(c) \/ c = "_"

\* str.upper and str.lower of one character
Upper(c) == IF IsLower(c) THEN Uppers[CHOOSE i \in 1..26 : Lowers[i] = c] ELSE c

Lower(c) == IF IsUpper(c) THEN Lowers[CHOOSE i \in 1..26 : Uppers[i] = c] ELSE c

\* str.startswith, str.endswith
StartsWith(s, p) == Len(p) <= Len(s) /\ SubSeq(s, 1, Len(p)) = p

EndsWith(s, p) == Len(p) <= Len(s) /\ SubSeq(s, Len(s) - Len(p) + 1, Len(s)) = p

\* str.find, counting from 1, and 0 when p does not occur in s
Find(s, p) ==
    LET at == {i \in 1..(Len(s) - Len(p) + 1) : SubSeq(s, i, i + Len(p) - 1) = p}
    IN IF at = {} THEN 0 ELSE CHOOSE i \in at : \A j \in at : i <= j

\* str.replace(old, new, count) for a non-empty old; count -1 replaces every
\* occurrence, left to right, without rescanning what was put in
RECURSIVE Replace(_, _, _, _)
Replace(s, old, new, count) ==
    LET i == Find(s, old) IN
    IF count = 0 \/ i = 0 THEN s
    ELSE SubSeq(s, 1, i - 1) \o new
         \o Replace(SubSeq(s, i + Len(old), Len(s)), old, new, count - 1)

RECURSIVE Flatten(_)
Flatten(ss) == IF ss = <<>> THEN <<>> ELSE Head(ss) \o Flatten(Tail(ss))

\* F applied to the value of v, worked out once: an assignment to a local name
With(v, F(_)) == CHOOSE r \in {F(val) : val \in {v}} : TRUE

\* ---------------------------------------------------------------------------
\* the legacy name normalizer (Tools/armature_utils.py)
\* ---------------------------------------------------------------------------

\* StripName(name): re.sub(r"^\w+_C\d+_|^[^_]+_", "", name). The first
\* alternative is greedy, so it ends at the last "_C<digits>_" that only word
\* characters precede; the second removes up to the first underscore
StripName(name) ==
    LET n == Len(name)
        DigitsFrom(i) == CHOOSE k \in 0..n : /\ \A j \in i..(i + k - 1) : j <= n /\ IsDigit(name[j])
                                             /\ (i + k > n \/ ~IsDigit(name[i + k]))
        EndOf(j) == j + 2 + DigitsFrom(j + 2)
        Marks == {j \in 2..(n - 3) : /\ \A k \in 1..(j - 1) : IsWord(name[k])
                                     /\ name[j] = "_" /\ name[j + 1] = "C"
                                     /\ DigitsFrom(j + 2) >= 1
                                     /\ EndOf(j) <= n /\ name[EndOf(j)] = "_"}
        last == CHOOSE j \in Marks : \A k \in Marks : k <= j
        first_ == Find(name, <<"_">>)
    IN IF Marks # {} THEN SubSeq(name, EndOf(last) + 1, n)
       ELSE IF first_ >= 2 THEN SubSeq(name, first_ + 1, n)
       ELSE name

\* re.sub(r"(?<=\w)([A-Z])", r" \1", name).title().replace(" ", "")
CamelTitle(name) ==
    LET spaced == Flatten([i \in 1..Len(name) |->
                      IF IsUpper(name[i]) /\ i > 1 /\ IsWord(name[i - 1])
                      THEN <<" ", name[i]>> ELSE <<name[i]>>])
        title == [i \in 1..Len(spaced) |->
                      IF i > 1 /\ IsLetter(spaced[i - 1]) THEN Lower(spaced[i])
                      ELSE Upper(spaced[i])]
    IN Replace(title, <<" ">>, <<>>, -1)

\* GetGameData(game): the rule tables in the order the dictionaries list them;
\* bone_names holds the entries for the joints the model names. The "NPC"
\* literal ends in a comma, which makes it a tuple holding the dictionary
GetGameData(game) ==
    CASE game = "Genshin Impact" ->
        [kind |-> "dict",
         bone_names |->
           <<<<<<"P","e","l","v","i","s">>, <<"H","i","p","s">>>>,
             <<<<"L","T","h","i","g","h">>, <<"L","e","f","t"," ","l","e","g">>>>,
             <<<<"R","T","h","i","g","h">>, <<"R","i","g","h","t"," ","l","e","g">>>>,
             <<<<"L","U","p","p","e","r","A","r","m">>, <<"L","e","f","t"," ","a","r","m">>>>,
             <<<<"R","U","p","p","e","r","A","r","m">>, <<"R","i","g","h","t"," ","a","r","m">>>>>>,
         starts_with |->
           <<<<<<"_">>, <<>>>>,
             <<<<"V","a","l","v","e","B","i","p","e","d","_">>, <<>>>>,
             <<<<"V","a","l","v","e","b","i","p","e","d","_">>, <<>>>>,
             <<<<"B","i","p","1","_">>, <<"B","i","p","_">>>>,
             <<<<"B","i","p","0","1","_">>, <<"B","i","p","_">>>>,
             <<<<"B","i","p","0","1">>, <<>>>>,
             <<<<"B","i","p","0","0","1">>, <<>>>>,
             <<<<"B","i","p","0","2","_">>, <<"B","i","p","_">>>>,
             <<<<"C","h","a","r","a","c","t","e","r","1","_">>, <<>>>>,
             <<<<"H","L","P","_">>, <<>>>>,
             <<<<"J","D","_">>, <<>>>>,
             <<<<"J","U","_">>, <<>>>>,
             <<<<"A","r","m","a","t","u","r","e","|">>, <<>>>>,
             <<<<"B","o","n","e","_">>, <<>>>>,
             <<<<"C","_">>, <<>>>>,
             <<<<"C","f","_","S","_">>, <<>>>>,
             <<<<"C","f","_","J","_">>, <<>>>>,
             <<<<"G","_">>, <<>>>>,
             <<<<"J","o","i","n","t","_">>, <<>>>>,
             <<<<"D","e","f","_","C","_">>, <<>>>>,
             <<<<"D","e","f","_">>, <<>>>>,
             <<<<"D","E","F","_">>, <<>>>>,
             <<<<"C","h","r","_">>, <<>>>>,
             <<<<"B","_">>, <<>>>>>>,
         ends_with |->
           <<<<<<"_","B","o","n","e">>, <<>>>>,
             <<<<"_","B","n">>, <<>>>>,
             <<<<"_","L","e">>, <<"_","L">>>>,
             <<<<"_","R","i">>, <<"_","R">>>>,
             <<<<"_">>, <<>>>>>>,
         replaces |->
           <<<<<<" ">>, <<"_">>>>,
             <<<<"-">>, <<"_">>>>,
             <<<<".">>, <<"_">>>>,
             <<<<":">>, <<"_">>>>,
             <<<<"_","_","_","_">>, <<"_">>>>,
             <<<<"_","_","_">>, <<"_">>>>,
             <<<<"_","_">>, <<"_">>>>,
             <<<<"_","L","e","_">>, <<"_","L","_">>>>,
             <<<<"_","l">>, <<"_","L">>>>,
             <<<<"_","R","i","_">>, <<"_","R","_">>>>,
             <<<<"_","r">>, <<"_","R">>>>,
             <<<<"_","m">>, <<"_","M">>>>,
             <<<<"L","E","F","T">>, <<"L","e","f","t">>>>,
             <<<<"R","I","G","H","T">>, <<"R","i","g","h","t">>>>,
             <<<<"a","l","l">>, <<"A","l","l">>>>,
             <<<<"f","i","n","g","e","r">>, <<"F","i","n","g","e","r">>>>,
             <<<<"p","a","r","t">>, <<"P","a","r","t">>>>,
             <<<<"+","E","y","e","B","o","n","e","L","A","0","2">>, <<"E","y","e","_","L">>>>,
             <<<<"+","E","y","e","B","o","n","e","R","A","0","2">>, <<"E","y","e","_","R">>>>>>]
      [] game = "Honkai Star Rail" ->
        [kind |-> "dict",
         bone_names |->
           <<<<<<"R","o","o","t","_","M">>, <<"H","i","p","s">>>>,
             <<<<"H","i","p","_","L">>, <<"L","e","f","t"," ","l","e","g">>>>,
             <<<<"H","i","p","_","R">>, <<"R","i","g","h","t"," ","l","e","g">>>>>>,
         starts_with |->
           <<<<<<"_">>, <<>>>>,
             <<<<"V","a","l","v","e","B","i","p","e","d","_">>, <<>>>>,
             <<<<"V","a","l","v","e","b","i","p","e","d","_">>, <<>>>>,
             <<<<"B","i","p","1","_">>, <<"B","i","p","_">>>>,
             <<<<"B","i","p","0","1","_">>, <<"B","i","p","_">>>>,
             <<<<"B","i","p","0","0","1","_">>, <<"B","i","p","_">>>>,
             <<<<"B","i","p","0","1">>, <<>>>>,
             <<<<"B","i","p","0","2","_">>, <<"B","i","p","_">>>>,
             <<<<"C","h","a","r","a","c","t","e","r","1","_">>, <<>>>>,
             <<<<"H","L","P","_">>, <<>>>>,
             <<<<"J","D","_">>, <<>>>>,
             <<<<"J","U","_">>, <<>>>>,
             <<<<"A","r","m","a","t","u","r","e","|">>, <<>>>>,
             <<<<"B","o","n","e","_">>, <<>>>>,
             <<<<"C","_">>, <<>>>>,
             <<<<"C","f","_","S","_">>, <<>>>>,
             <<<<"C","f","_","J","_">>, <<>>>>,
             <<<<"G","_">>, <<>>>>,
             <<<<"J","o","i","n","t","_">>, <<>>>>,
             <<<<"D","e","f","_","C","_">>, <<>>>>,
             <<<<"D","e","f","_">>, <<>>>>,
             <<<<"D","E","F","_">>, <<>>>>,
             <<<<"C","h","r","_">>, <<>>>>,
             <<<<"B","_">>, <<>>>>>>,
         ends_with |->
           <<<<<<"_","B","o","n","e">>, <<>>>>,
             <<<<"_","B","n">>, <<>>>>,
             <<<<"_","L","e">>, <<"_","L">>>>,
             <<<<"_","R","i">>, <<"_","R">>>>,
             <<<<"_">>, <<>>>>>>,
         replaces |->
           <<<<<<" ">>, <<"_">>>>,
             <<<<"-">>, <<"_">>>>,
             <<<<".">>, <<"_">>>>,
             <<<<":">>, <<"_">>>>,
             <<<<"_","_","_","_">>, <<"_">>>>,
             <<<<"_","_","_">>, <<"_">>>>,
             <<<<"_","_">>, <<"_">>>>,
             <<<<"_","L","e","_">>, <<"_","L","_">>>>,
             <<<<"_","l">>, <<"_","L">>>>,
             <<<<"_","R","i","_">>, <<"_","R","_">>>>,
             <<<<"_","r">>, <<"_","R">>>>,
             <<<<"_","m">>, <<"_","M">>>>,
             <<<<"L","E","F","T">>, <<"L","e","f","t">>>>,
             <<<<"R","I","G","H","T">>, <<"R","i","g","h","t">>>>,
             <<<<"a","l","l">>, <<"A","l","l">>>>,
             <<<<"f","i","n","g","e","r">>, <<"F","i","n","g","e","r">>>>,
             <<<<"p","a","r","t">>, <<"P","a","r","t">>>>>>]
      [] game = "Honkai Impact" ->
        [kind |-> "dict",
         bone_names |->
           <<<<<<"P","e","l","v","i","s">>, <<"H","i","p","s">>>>,
             <<<<"L","T","h","i","g","h">>, <<"L","e","f","t"," ","l","e","g">>>>,
             <<<<"R","T","h","i","g","h">>, <<"R","i","g","h","t"," ","l","e","g">>>>,
             <<<<"L","U","p","p","e","r","A","r","m">>, <<"L","e","f","t"," ","a","r","m">>>>,
             <<<<"R","U","p","p","e","r","A","r","m">>, <<"R","i","g","h","t"," ","a","r","m">>>>>>,
         starts_with |->
           <<<<<<"_">>, <<>>>>,
             <<<<"V","a","l","v","e","B","i","p","e","d","_">>, <<>>>>,
             <<<<"V","a","l","v","e","b","i","p","e","d","_">>, <<>>>>,
             <<<<"B","i","p","1","_">>, <<"B","i","p","_">>>>,
             <<<<"B","i","p","0","1","_">>, <<"B","i","p","_">>>>,
             <<<<"B","i","p","0","0","1","_">>, <<"B","i","p","_">>>>,
             <<<<"B","i","p","0","0","1">>, <<>>>>,
             <<<<"B","i","p","0","1">>, <<>>>>,
             <<<<"B","i","p","0","2","_">>, <<"B","i","p","_">>>>,
             <<<<"C","h","a","r","a","c","t","e","r","1","_">>, <<>>>>,
             <<<<"H","L","P","_">>, <<>>>>,
             <<<<"J","D","_">>, <<>>>>,
             <<<<"J","U","_">>, <<>>>>,
             <<<<"A","r","m","a","t","u","r","e","|">>, <<>>>>,
             <<<<"B","o","n","e","_">>, <<>>>>,
             <<<<"C","_">>, <<>>>>,
             <<<<"C","f","_","S","_">>, <<>>>>,
             <<<<"C","f","_","J","_">>, <<>>>>,
             <<<<"G","_">>, <<>>>>,
             <<<<"J","o","i","n","t","_">>, <<>>>>,
             <<<<"D","e","f","_","C","_">>, <<>>>>,
             <<<<"D","e","f","_">>, <<>>>>,
             <<<<"D","E","F","_">>, <<>>>>,
             <<<<"C","h","r","_">>, <<>>>>,
             <<<<"B","_">>, <<>>>>>>,
         ends_with |->
           <<<<<<"_","B","o","n","e">>, <<>>>>,
             <<<<"_","B","n">>, <<>>>>,
             <<<<"_","L","e">>, <<"_","L">>>>,
             <<<<"_","R","i">>, <<"_","R">>>>,
             <<<<"_">>, <<>>>>,
             <<<<"_","E","n","d">>, <<>>>>>>,
         replaces |->
           <<<<<<" ">>, <<"_">>>>,
             <<<<"-">>, <<"_">>>>,
             <<<<".">>, <<"_">>>>,
             <<<<":">>, <<"_">>>>,
             <<<<"_","_","_","_">>, <<"_">>>>,
             <<<<"_","_","_">>, <<"_">>>>,
             <<<<"_","_">>, <<"_">>>>,
             <<<<"_","L","e","_">>, <<"_","L","_">>>>,
             <<<<"_","l">>, <<"_","L">>>>,
             <<<<"_","R","i","_">>, <<"_","R","_">>>>,
             <<<<"_","r">>, <<"_","R">>>>,
             <<<<"_","m">>, <<"_","M">>>>,
             <<<<"L","E","F","T">>, <<"L","e","f","t">>>>,
             <<<<"R","I","G","H","T">>, <<"R","i","g","h","t">>>>,
             <<<<"a","l","l">>, <<"A","l","l">>>>,
             <<<<"f","i","n","g","e","r">>, <<"F","i","n","g","e","r">>>>,
             <<<<"p","a","r","t">>, <<"P","a","r","t">>>>>>]
      [] game = "Wuthering Waves" ->
        [kind |-> "dict",
         bone_names |->
           <<<<<<"P","e","l","v","i","s">>, <<"H","i","p","s">>>>,
             <<<<"L","T","h","i","g","h">>, <<"L","e","f","t"," ","l","e","g">>>>,
             <<<<"R","T","h","i","g","h">>, <<"R","i","g","h","t"," ","l","e","g">>>>,
             <<<<"L","U","p","p","e","r","A","r","m">>, <<"L","e","f","t"," ","a","r","m">>>>,
             <<<<"R","U","p","p","e","r","A","r","m">>, <<"R","i","g","h","t"," ","a","r","m">>>>,
             <<<<"R","o","o","t","_","M">>, <<"H","i","p","s">>>>,
             <<<<"H","i","p","_","L">>, <<"L","e","f","t"," ","l","e","g">>>>,
             <<<<"H","i","p","_","R">>, <<"R","i","g","h","t"," ","l","e","g">>>>>>,
         starts_with |->
           <<<<<<"_">>, <<>>>>,
             <<<<"V","a","l","v","e","B","i","p","e","d","_">>, <<>>>>,
             <<<<"V","a","l","v","e","b","i","p","e","d","_">>, <<>>>>,
             <<<<"B","i","p","1","_">>, <<"B","i","p","_">>>>,
             <<<<"B","i","p","0","1","_">>, <<"B","i","p","_">>>>,
             <<<<"B","i","p","0","1">>, <<>>>>,
             <<<<"B","i","p","0","0","1">>, <<>>>>,
             <<<<"B","i","p","0","2","_">>, <<"B","i","p","_">>>>,
             <<<<"C","h","a","r","a","c","t","e","r","1","_">>, <<>>>>,
             <<<<"H","L","P","_">>, <<>>>>,
             <<<<"J","D","_">>, <<>>>>,
             <<<<"J","U","_">>, <<>>>>,
             <<<<"A","r","m","a","t","u","r","e","|">>, <<>>>>,
             <<<<"B","o","n","e","_">>, <<>>>>,
             <<<<"C","_">>, <<>>>>,
             <<<<"C","f","_","S","_">>, <<>>>>,
             <<<<"C","f","_","J","_">>, <<>>>>,
             <<<<"G","_">>, <<>>>>,
             <<<<"J","o","i","n","t","_">>, <<>>>>,
             <<<<"D","e","f","_","C","_">>, <<>>>>,
             <<<<"D","e","f","_">>, <<>>>>,
             <<<<"D","E","F","_">>, <<>>>>,
             <<<<"C","h","r","_">>, <<>>>>,
             <<<<"B","_">>, <<>>>>>>,
         ends_with |->
           <<<<<<"_","B","o","n","e">>, <<>>>>,
             <<<<"_","B","n">>, <<>>>>,
             <<<<"_","L","e">>, <<"_","L">>>>,
             <<<<"_","R","i">>, <<"_","R">>>>,
             <<<<"_">>, <<>>>>,
             <<<<"_","E","n","d">>, <<>>>>>>,
         replaces |->
           <<<<<<" ">>, <<"_">>>>,
             <<<<"-">>, <<"_">>>>,
             <<<<".">>, <<"_">>>>,
             <<<<":">>, <<"_">>>>,
             <<<<"_","_","_","_">>, <<"_">>>>,
             <<<<"_","_","_">>, <<"_">>>>,
             <<<<"_","_">>, <<"_">>>>,
             <<<<"_","L","e","_">>, <<"_","L","_">>>>,
             <<<<"_","l">>, <<"_","L">>>>,
             <<<<"_","R","i","_">>, <<"_","R","_">>>>,
             <<<<"_","r">>, <<"_","R">>>>,
             <<<<"_","m">>, <<"_","M">>>>,
             <<<<"L","E","F","T">>, <<"L","e","f","t">>>>,
             <<<<"R","I","G","H","T">>, <<"R","i","g","h","t">>>>,
             <<<<"a","l","l">>, <<"A","l","l">>>>,
             <<<<"f","i","n","g","e","r">>, <<"F","i","n","g","e","r">>>>,
             <<<<"p","a","r","t">>, <<"P","a","r","t">>>>>>]
      [] game = "Zenless Zone Zero" ->
        [kind |-> "dict",
         bone_names |->
           <<<<<<"P","e","l","v","i","s">>, <<"H","i","p","s">>>>,
             <<<<"L","T","h","i","g","h">>, <<"L","e","f","t"," ","l","e","g">>>>,
             <<<<"R","T","h","i","g","h">>, <<"R","i","g","h","t"," ","l","e","g">>>>,
             <<<<"L","U","p","p","e","r","A","r","m">>, <<"L","e","f","t"," ","a","r","m">>>>,
             <<<<"R","U","p","p","e","r","A","r","m">>, <<"R","i","g","h","t"," ","a","r","m">>>>>>,
         starts_with |->
           <<<<<<"_">>, <<>>>>,
             <<<<"V","a","l","v","e","B","i","p","e","d","_">>, <<>>>>,
             <<<<"V","a","l","v","e","b","i","p","e","d","_">>, <<>>>>,
             <<<<"B","i","p","1","_">>, <<"B","i","p","_">>>>,
             <<<<"B","i","p","0","1","_">>, <<"B","i","p","_">>>>,
             <<<<"B","i","p","0","1">>, <<>>>>,
             <<<<"B","i","p","0","0","1">>, <<>>>>,
             <<<<"B","i","p","0","2","_">>, <<"B","i","p","_">>>>,
             <<<<"C","h","a","r","a","c","t","e","r","1","_">>, <<>>>>,
             <<<<"H","L","P","_">>, <<>>>>,
             <<<<"J","D","_">>, <<>>>>,
             <<<<"J","U","_">>, <<>>>>,
             <<<<"A","r","m","a","t","u","r","e","|">>, <<>>>>,
             <<<<"B","o","n","e","_">>, <<>>>>,
             <<<<"C","_">>, <<>>>>,
             <<<<"C","f","_","S","_">>, <<>>>>,
             <<<<"C","f","_","J","_">>, <<>>>>,
             <<<<"G","_">>, <<>>>>,
             <<<<"J","o","i","n","t","_">>, <<>>>>,
             <<<<"D","e","f","_","C","_">>, <<>>>>,
             <<<<"D","e","f","_">>, <<>>>>,
             <<<<"D","E","F","_">>, <<>>>>,
             <<<<"C","h","r","_">>, <<>>>>,
             <<<<"B","_">>, <<>>>>>>,
         ends_with |->
           <<<<<<"_","B","o","n","e">>, <<>>>>,
             <<<<"_","B","n">>, <<>>>>,
             <<<<"_","L","e">>, <<"_","L">>>>,
             <<<<"_","R","i">>, <<"_","R">>>>,
             <<<<"_">>, <<>>>>>>,
         replaces |->
           <<<<<<" ">>, <<"_">>>>,
             <<<<"-">>, <<"_">>>>,
             <<<<".">>, <<"_">>>>,
             <<<<":">>, <<"_">>>>,
             <<<<"_","_","_","_">>, <<"_">>>>,
             <<<<"_","_","_">>, <<"_">>>>,
             <<<<"_","_">>, <<"_">>>>,
             <<<<"_","L","e","_">>, <<"_","L","_">>>>,
             <<<<"_","l">>, <<"_","L">>>>,
             <<<<"_","R","i","_">>, <<"_","R","_">>>>,
             <<<<"_","r">>, <<"_","R">>>>,
             <<<<"_","m">>, <<"_","M">>>>,
             <<<<"L","E","F","T">>, <<"L","e","f","t">>>>,
             <<<<"R","I","G","H","T">>, <<"R","i","g","h","t">>>>,
             <<<<"a","l","l">>, <<"A","l","l">>>>,
             <<<<"f","i","n","g","e","r">>, <<"F","i","n","g","e","r">>>>,
             <<<<"p","a","r","t">>, <<"P","a","r","t">>>>>>]
      [] game = "NPC" -> [kind |-> "tuple"]
      [] OTHER -> [kind |-> "None"]

\* for old, new in starts_with.items(): every rule is tried on the current name
RECURSIVE StartsWithPass(_, _)
StartsWithPass(name, rules) ==
    IF rules = <<>> THEN name
    ELSE IF StartsWith(name, rules[1][1])
    THEN StartsWithPass(Replace(name, rules[1][1], rules[1][2], 1), Tail(rules))
    ELSE StartsWithPass(name, Tail(rules))

\* for old, new in ends_with.items()
RECURSIVE EndsWithPass(_, _)
EndsWithPass(name, rules) ==
    IF rules = <<>> THEN name
    ELSE IF EndsWith(name, rules[1][1])
    THEN EndsWithPass(SubSeq(name, 1, Len(name) - Len(rules[1][1])) \o rules[1][2],
                      Tail(rules))
    ELSE EndsWithPass(name, Tail(rules))

\* for old, new in replaces.items()
RECURSIVE ReplacesPass(_, _)
ReplacesPass(name, rules) ==
    IF rules = <<>> THEN name
    ELSE IF Find(name, rules[1][1]) = 0 THEN ReplacesPass(name, Tail(rules))
    ELSE ReplacesPass(Replace(name, rules[1][1], rules[1][2], -1), Tail(rules))

\* game_data["bone_names"][name] if the name is a key
BoneNamesPass(name, rules) ==
    IF \E k \in 1..Len(rules) : rules[k][1] = name
    THEN rules[CHOOSE k \in 1..Len(rules) : rules[k][1] = name][2]
    ELSE name

\* RenameBones(game, armature) on one bone's name: the name after each pass.
\* An unknown game returns before any renaming; the tuple of "NPC" raises at
\* game_data["starts_with"], after the first assignment to bone.name
RenameBones(game, name) ==
    LET data == GetGameData(game)
        stripped == IF game = "Honkai Impact" THEN StripName(name) ELSE name
        titled == CamelTitle(stripped)
    IN IF data.kind = "None"
       THEN [name |-> name, ret |-> "None", passes |-> [done |-> FALSE]]
       ELSE IF data.kind = "tuple"
       THEN [name |-> titled, ret |-> "raised", passes |-> [done |-> FALSE]]
       ELSE LET prefixed == StartsWithPass(titled, data.starts_with)
                suffixed == EndsWithPass(prefixed, data.ends_with)
                replaced == ReplacesPass(suffixed, data.replaces)
            IN [name |-> BoneNamesPass(replaced, data.bone_names), ret |-> "None",
                passes |-> [done |-> TRUE, titled |-> titled, prefixed |-> prefixed,
                            suffixed |-> suffixed, replaced |-> replaced]]

\* the spelling of the names rename_bones' bone_map is asked about here
Spelling ==
    [n \in {"Bip001 L UpperArm", "Bip001 R UpperArm", "Bip001 Pelvis", "Root_M",
            "Left Upper Arm", "Right Upper Arm", "Hips"} |->
        CASE n = "Bip001 L UpperArm" -> <<"B","i","p","0","0","1"," ","L"," ","U","p","p","e","r","A","r","m">>
          [] n = "Bip001 R UpperArm" -> <<"B","i","p","0","0","1"," ","R"," ","U","p","p","e","r","A","r","m">>
          [] n = "Bip001 Pelvis" -> <<"B","i","p","0","0","1"," ","P","e","l","v","i","s">>
          [] n = "Root_M" -> <<"R","o","o","t","_","M">>
          [] n = "Left Upper Arm" -> <<"L","e","f","t"," ","U","p","p","e","r"," ","A","r","m">>
          [] n = "Right Upper Arm" -> <<"R","i","g","h","t"," ","U","p","p","e","r"," ","A","r","m">>
          [] n = "Hips" -> <<"H","i","p","s">>]

\* rename_bones on one bone's name: if bone.name in bone_map
BoneMapName(name) ==
    IF \E n \in DOMAIN Spelling \cap DOMAIN bone_map : Spelling[n] = name
    THEN Spelling[bone_map[CHOOSE n \in DOMAIN Spelling \cap DOMAIN bone_map :
                               Spelling[n] = name]]
    ELSE name

\* ---------------------------------------------------------------------------
\* the model classifier (functions/game_detection.py)
\* ---------------------------------------------------------------------------

\* str.strip()
RECURSIVE Strip(_)
Strip(s) ==
    IF s # <<>> /\ Head(s) = " " THEN Strip(Tail(s))
    ELSE IF s # <<>> /\ s[Len(s)] = " " THEN Strip(SubSeq(s, 1, Len(s) - 1))
    ELSE s

\* GameDetector.clean_name(name)
clean_name(name) ==
    Strip(ReplacesPass(name,
        <<<<<<".","0","0","1">>, <<>>>>, <<<<"_","R","e","n","d","e","r">>, <<>>>>, <<<<"_","m","e","r","g","e">>, <<>>>>,
          <<<<" ","(","m","e","r","g","e",")">>, <<>>>>, <<<<"_","E","d","i","t">>, <<>>>>, <<<<".","f","b","x">>, <<>>>>,
          <<<<".","F","B","X">>, <<>>>>, <<<<"_","L","O","D","0">>, <<>>>>, <<<<"_","L","O","D","1">>, <<>>>>,
          <<<<"_","L","O","D","2">>, <<>>>>, <<<<"_","U","I">>, <<>>>>, <<<<"_","M","o","d","e","l">>, <<>>>>,
          <<<<"_","S","k","e","l","e","t","o","n">>, <<>>>>, <<<<"C","o","s","t","u","m","e">>, <<" ">>>>, <<<<"N","P","C","_">>, <<>>>>,
          <<<<"K","a","n","b","a","n","_">>, <<>>>>, <<<<"C","s","_">>, <<>>>>, <<<<"M","o","n","s","t","e","r","_">>, <<>>>>,
          <<<<"#">>, <<>>>>, <<<<"L","a","_">>, <<"L","a"," ">>>>, <<<<"_","T","K">>, <<>>>>>>))

prefixes_to_remove ==
    <<<<"C","s","_","A","v","a","t","a","r","_">>, <<"A","v","a","t","a","r","_">>, <<"N","P","C","_","A","v","a","t","a","r","_">>, <<"P","l","a","y","e","r","_">>, <<"A","r","t","_">>, <<"E","q","u","i","p","_">>,
      <<"C","S","_","I","t","e","m","_">>, <<"N","P","C","_","I","t","e","m","_">>, <<"A","s","s","i","s","t","e","r","_">>, <<"S","t","a","n","d","a","l","o","n","e","_">>, <<"A","v","a","t","a","r","_">>,
      <<"N","P","C","_","A","v","a","t","a","r","_">>, <<"P","l","a","y","e","r","_">>, <<"A","r","t","_">>, <<"E","q","u","i","p","_">>, <<"C","S","_","I","t","e","m","_">>, <<"N","P","C","_","I","t","e","m","_">>,
      <<"A","s","s","i","s","t","e","r","_">>, <<"M","d">>, <<"R","2","T","1">>, <<"N","H">>>>

body_types == <<<<"B","o","y">>, <<"G","i","r","l">>, <<"L","a","d","y">>, <<"M","a","l","e">>, <<"L","o","l","i">>>>

weapon_types == <<<<"S","w","o","r","d">>, <<"B","o","w">>, <<"C","l","a","y","m","o","r","e">>, <<"C","a","t","a","l","y","s","t">>, <<"P","o","l","e">>, <<"U","n","d","e","f","i","n","e","d">>>>

\* re.sub("^" + pattern, "", name) for each pattern of a list. A pattern is a
\* tuple of character classes: a literal character, "\d", "[A-Z]" or "[a-z]"
RECURSIVE RemovePrefixes(_, _)
RemovePrefixes(name, patterns) ==
    LET p == Head(patterns)
        Is(c, class) == CASE class = "\\d" -> IsDigit(c)
                          [] class = "[A-Z]" -> IsUpper(c)
                          [] class = "[a-z]" -> IsLower(c)
                          [] OTHER -> c = class
    IN IF patterns = <<>> THEN name
       ELSE IF Len(p) <= Len(name) /\ \A i \in 1..Len(p) : Is(name[i], p[i])
       THEN RemovePrefixes(SubSeq(name, Len(p) + 1, Len(name)), Tail(patterns))
       ELSE RemovePrefixes(name, Tail(patterns))

\* extract_clean_name without the prefix removal
extract_clean_name_unstripped(name, game) == clean_name(name)

\* GameDetector.extract_clean_name(name, game) for a game other than
\* "Honkai Impact 3rd"; a game of "None" is the omitted argument
extract_clean_name(name, game) ==
    LET size == <<"S","i","z","e">> \o <<"\\d", "\\d", "_">>
        \* re.sub(r"_?\d+$", "", name)
        NoDigits(noregex) ==
            LET n == Len(noregex)
                digits == CHOOSE k \in 0..n : /\ \A j \in (n - k + 1)..n : IsDigit(noregex[j])
                                              /\ (k = n \/ ~IsDigit(noregex[n - k]))
            IN With(digits, LAMBDA d :
                   IF d = 0 THEN noregex
                   ELSE IF d < n /\ noregex[n - d] = "_"
                   THEN SubSeq(noregex, 1, n - d - 1)
                   ELSE SubSeq(noregex, 1, n - d))
        \* re.sub(r"^_|_$", "", name)
        NoLead(nodigits) == IF StartsWith(nodigits, <<"_">>) THEN Tail(nodigits) ELSE nodigits
        Trimmed(nolead) == IF EndsWith(nolead, <<"_">>) THEN SubSeq(nolead, 1, Len(nolead) - 1)
                           ELSE nolead
        Stripped(cleaned) ==
            With(RemovePrefixes(cleaned, prefixes_to_remove), LAMBDA unprefixed :
            With(RemovePrefixes(unprefixed,
                     [i \in 1..Len(body_types) |-> body_types[i] \o <<"_">>]
                     \o <<<<"F","e","m","a","l","e","_">> \o size, <<"M","a","l","e","_">> \o size, size>>), LAMBDA nobody :
            With(RemovePrefixes(nobody,
                     [i \in 1..Len(weapon_types) |-> weapon_types[i] \o <<"_">>]), LAMBDA noweapon :
            With(RemovePrefixes(noweapon,
                     << <<"[A-Z]", "\\d", "\\d", "_">>, <<"[a-z]", "\\d", "\\d", "_">>,
                        <<"_", "[A-Z]", "[A-Z]">>, <<"_", "[a-z]", "[a-z]">> >>), LAMBDA noregex :
            With(NoDigits(noregex), LAMBDA nodigits :
            With(NoLead(nodigits), Trimmed))))))
        Named(cleaned) ==
            LET Has_(p) == Find(cleaned, p) # 0
            IN CASE game = "Genshin Impact" /\ Has_(<<"P","l","a","y","e","r","B","o","y">>) -> <<"A","e","t","h","e","r">>
                 [] game = "Genshin Impact" /\ Has_(<<"P","l","a","y","e","r","G","i","r","l">>) -> <<"L","u","m","i","n","e">>
                 [] game = "Honkai Star Rail" /\ Has_(<<"P","l","a","y","e","r","B","o","y">>) -> <<"C","a","e","l","u","s">>
                 [] game = "Honkai Star Rail" /\ Has_(<<"P","l","a","y","e","r","G","i","r","l">>) -> <<"S","t","e","l","l","e">>
                 [] game = "Honkai Star Rail" /\ Has_(<<"T","r","a","i","l","b","l","a","z","e","r">>)
                      /\ (Has_(<<"B","o","y">>) \/ Has_(<<"M","a","l","e">>)) -> <<"C","a","e","l","u","s">>
                 [] game = "Honkai Star Rail" /\ Has_(<<"T","r","a","i","l","b","l","a","z","e","r">>)
                      /\ (Has_(<<"G","i","r","l">>) \/ Has_(<<"F","e","m","a","l","e">>)) -> <<"S","t","e","l","l","e">>
                 [] OTHER -> Stripped(cleaned)
    IN With(clean_name(name), Named)

\* the matches of the first pattern of identify_model,
\* ^(Cs_Avatar|Cs_Monster|Avatar|NPC_Avatar)_(body)_(weapon)_([a-zA-Z]+(?:\s+[a-zA-Z]+)?)(?<!_\d{2})$
\* as the groups 2, 3, 4 and 0; the set is empty when the name does not match
GenshinMatches(name) ==
    LET firsts == {<<"C","s","_","A","v","a","t","a","r">>, <<"C","s","_","M","o","n","s","t","e","r">>, <<"A","v","a","t","a","r">>, <<"N","P","C","_","A","v","a","t","a","r">>}
        Rest(f, b, w) == SubSeq(name, Len(f) + Len(b) + Len(w) + 4, Len(name))
        Named_(r) == /\ r # <<>>
                     /\ IsLetter(r[1]) /\ IsLetter(r[Len(r)])
                     /\ \A i \in 1..Len(r) : IsLetter(r[i]) \/ r[i] = " "
                     /\ \A i, j \in 1..Len(r) :
                            (i < j /\ r[i] = " " /\ r[j] = " ")
                                => \A k \in i..j : r[k] = " "
    IN {[body_type |-> body_types[b], weapon_type |-> weapon_types[w],
         model_name |-> Rest(f, body_types[b], weapon_types[w]), original_name |-> name] :
            <<f, b, w>> \in {t \in firsts \X (1..Len(body_types)) \X (1..Len(weapon_types)) :
                /\ StartsWith(name, t[1] \o <<"_">> \o body_types[t[2]] \o <<"_">>
                                    \o weapon_types[t[3]] \o <<"_">>)
                /\ Named_(Rest(t[1], body_types[t[2]], weapon_types[t[3]]))}}

\* GameDetector.identify_genshin_character(match); a field of None is <<>>
identify_genshin_character(match) ==
    With(match, LAMBDA m :
        [game |-> "Genshin Impact", body_type |-> m.body_type,
         model_name |-> m.model_name,
         clean_name |-> extract_clean_name(m.original_name, "Genshin Impact"),
         weapon_type |-> m.weapon_type, is_weapon |-> FALSE])

\* GameDetector.identify_unknown(match)
identify_unknown(match) ==
    [game |-> "NPC", body_type |-> <<>>, model_name |-> match,
     clean_name |-> extract_clean_name(match, "None"),
     weapon_type |-> <<>>, is_weapon |-> FALSE]

\* GameDetector.identify_weapon(match): the body type is the first weapon word
\* the name holds
identify_weapon(match) ==
    LET held == {i \in 1..5 : Find(match, weapon_types[i]) # 0}
    IN [game |-> "Genshin Impact Weapon",
        body_type |-> IF held = {} THEN <<>>
                      ELSE weapon_types[CHOOSE i \in held : \A j \in held : i <= j],
        model_name |-> match, clean_name |-> extract_clean_name(match, "None"),
        weapon_type |-> <<>>, is_weapon |-> TRUE]

\* GameDetector.identify_model(name) for the names the Genshin character
\* pattern, the controller pattern or no pattern decides. Every pattern between
\* the two needs a digit or one of the prefixes R2T1, NH, Equip_, CS_Item_ and
\* NPC_Item_; a name with one of those gets the game "other"
GameDetector_identify_model(name) ==
    LET Later(cleaned) ==
            \/ \E i \in 1..Len(cleaned) : IsDigit(cleaned[i])
            \/ \E p \in {<<"R","2","T","1">>, <<"N","H">>, <<"E","q","u","i","p","_">>, <<"C","S","_","I","t","e","m","_">>, <<"N","P","C","_","I","t","e","m","_">>} :
                   StartsWith(cleaned, p)
        Identify(cleaned) ==
            With(GenshinMatches(cleaned), LAMBDA matches :
                IF matches # {}
                THEN identify_genshin_character(CHOOSE m \in matches : TRUE)
                ELSE IF Later(cleaned)
                THEN [identify_unknown(cleaned) EXCEPT !.game = "other"]
                ELSE IF EndsWith(cleaned, <<"C","o","n","t","r","o","l","l","e","r","B","o","n","e">>)
                THEN identify_weapon(cleaned)
                ELSE identify_unknown(cleaned))
    IN With(clean_name(name), Identify)

\* ---------------------------------------------------------------------------
\* the normalizers and the classifier applied to names: a bone of a rig handed
\* to the legacy converter or to a pipeline, or the root object of a model
\* ---------------------------------------------------------------------------

\* the game the legacy converter was given; "Arknights" has no rule table
LegacyGames ==
    {"Genshin Impact", "Honkai Star Rail", "Honkai Impact", "NPC", "Wuthering Waves",
     "Zenless Zone Zero", "Arknights"}

RawBoneNames ==
    {<<"B","i","p","0","0","1"," ","L"," ","U","p","p","e","r","A","r","m">>, <<"B","i","p","0","0","1"," ","R"," ","U","p","p","e","r","A","r","m">>, <<"B","i","p","0","0","1"," ","P","e","l","v","i","s">>, <<"B","i","p","0","0","1","_","P","e","l","v","i","s">>,
     <<"_","B","o","n","e","_","X">>, <<"B","o","n","e","_","C","_","H","a","i","r">>, <<"B","_","B","o","n","e","_","T","a","i","l","_","L","e">>, <<"R","o","o","t","_","M">>, <<"A","v","a","t","a","r","_","C","1","2","_","B","i","p","0","0","1"," ","L"," ","T","h","i","g","h">>,
     <<"h","a","i","r","_","l","e","f","t","-","0","1",".","x">>}

Letters == {<<"A","e","t","h","e","r">>, <<"A","m","b","e","r">>, <<"P","l","a","y","e","r","B","o","y">>, <<"P","l","a","y","e","r","G","i","r","l">>, <<"C","o","s","t","u","m","e">>, <<"A","y","a","k","a","C","o","s","t","u","m","e","F","r","u","h","l","i","n","g">>, <<"M","o","d","e","l">>}

\* Avatar_<body>_<weapon>_<letters>
AvatarName(b, w, l) == <<"A","v","a","t","a","r","_">> \o body_types[b] \o <<"_">> \o weapon_types[w] \o <<"_">> \o l

OtherObjectNames ==
    {<<"A","v","a","t","a","r","_","B","o","y","_","S","w","o","r","d","_","A","e","t","h","e","r",".","0","0","1">>, <<"C","s","_","A","v","a","t","a","r","_","G","i","r","l","_","B","o","w","_","A","m","b","e","r">>, <<"B","o","w","_","C","o","n","t","r","o","l","l","e","r","B","o","n","e">>,
     <<"U","n","k","n","o","w","n","_","T","h","i","n","g">>, <<"A","v","a","t","a","r","_","K","i","d","_","S","w","o","r","d","_","X">>}

NameInputs ==
    {[kind |-> "bone", game |-> g, name |-> n, body_type |-> <<>>, weapon_type |-> <<>>, letters |-> <<>>] :
        g \in LegacyGames, n \in RawBoneNames}
    \cup {[kind |-> "object", game |-> "None", name |-> AvatarName(b, w, l),
           body_type |-> body_types[b], weapon_type |-> weapon_types[w], letters |-> l] :
        b \in 1..Len(body_types), w \in 1..Len(weapon_types), l \in Letters}
    \cup {[kind |-> "object", game |-> "None", name |-> n, body_type |-> <<>>, weapon_type |-> <<>>, letters |-> <<>>] :
        n \in OtherObjectNames}

InitNames ==
    /\ input \in NameInputs
    /\ result = input.name
    /\ pre = input.name
    /\ log = [done |-> FALSE]
    /\ lastOp = ""
    /\ ret = "None"
    /\ nOps = 0
    /\ pc = "names"
    /\ bones = <<>>
    /\ mode = "OBJECT"
    /\ active = "ARMATURE"
    /\ inScene = TRUE
    /\ hostChecks = TRUE
    /\ meshes = {}
    /\ groups = <<>>
    /\ arg = <<>>
    /\ marker = FALSE
    /\ scene_settings = DefaultScene

\* one more normalizer has run on the bone's name
Renamed(op, name, r, passes) ==
    /\ input.kind = "bone"
    /\ ret # "raised"
    /\ nOps < MaxOps
    /\ nOps' = nOps + 1
    /\ lastOp' = op
    /\ pre' = result
    /\ result' = name
    /\ ret' = r
    /\ log' = passes
    /\ UNCHANGED <<bones, mode, active, hostChecks, arg, inScene, meshes, groups, pc,
                   input, marker, scene_settings>>

\* armature_utils.RenameBones(game, armature) of the legacy converter's Run
NamesRenameBones ==
    LET r == RenameBones(input.game, result)
    IN Renamed("RenameBones", r.name, r.ret, r.passes)

\* ArmatureUtils.rename_bones(context) of a pipeline
NamesRenameBonesMap ==
    Renamed("rename_bones", BoneMapName(result), "True", [done |-> FALSE])

\* get_model_info(obj.name)
NamesIdentifyModel ==
    /\ input.kind = "object"
    /\ lastOp = ""
    /\ lastOp' = "identify_model"
    /\ nOps' = nOps + 1
    /\ result' = GameDetector_identify_model(input.name)
    /\ UNCHANGED <<bones, mode, active, hostChecks, ret, pre, arg, inScene, meshes,
                   groups, pc, log, input, marker, scene_settings>>

NextNames ==
    \/ NamesRenameBones
    \/ NamesRenameBonesMap
    \/ NamesIdentifyModel

SpecNames == InitNames /\ [][NextNames]_vars

\* the prefix pass as the specification words it: only the first rule, in
\* table order, that the name starts with is applied
FirstMatchOnly(name, rules) ==
    LET hits == {k \in 1..Len(rules) : StartsWith(name, rules[k][1])}
        k == CHOOSE h \in hits : \A j \in hits : h <= j
    IN IF hits = {} THEN name ELSE Replace(name, rules[k][1], rules[k][2], 1)

\* C14: in the prefix pass of the legacy normalizer only the first matching
\* prefix, in table order, is replaced; no further prefix rule is applied to
\* the name in the same pass
C14_FirstPrefixWins ==
    (lastOp = "RenameBones" /\ log.done)
        => log.prefixed = FirstMatchOnly(log.titled, GetGameData(input.game).starts_with)

\* C15: every normalizer, given the Bip-family rules, turns "Bip001 L UpperArm"
\* into "Left Upper Arm" and "Bip001 R UpperArm" into "Right Upper Arm"
C15_BipUpperArm ==
    (lastOp \in {"RenameBones", "rename_bones"} /\ (lastOp = "RenameBones" => log.done))
        => /\ pre = <<"B","i","p","0","0","1"," ","L"," ","U","p","p","e","r","A","r","m">> => result = <<"L","e","f","t"," ","U","p","p","e","r"," ","A","r","m">>
           /\ pre = <<"B","i","p","0","0","1"," ","R"," ","U","p","p","e","r","A","r","m">> => result = <<"R","i","g","h","t"," ","U","p","p","e","r"," ","A","r","m">>

\* the root object's name has the form Avatar_<body>_<weapon>_<letters> and
\* has been classified
AvatarClassified == lastOp = "identify_model" /\ input.letters # <<>>

\* C16 as stated: a name of the form Avatar_<body>_<weapon>_<letters> is
\* classified as Genshin Impact with the matched body and weapon type and with
\* the letters as clean name
C16_AvatarFormClassified ==
    AvatarClassified
        => /\ result.game = "Genshin Impact"
           /\ result.body_type = input.body_type
           /\ result.weapon_type = input.weapon_type
           /\ result.clean_name = input.letters

\* C16: a name of the form Avatar_<body>_<weapon>_<letters> that the cosmetic
\* replacements of clean_name leave as it is, is classified as Genshin Impact
\* with the matched body and weapon type; its clean name is the letters, unless
\* they hold PlayerBoy or PlayerGirl, which give Aether and Lumine
C16_UnalteredAvatarClassified ==
    (AvatarClassified /\ clean_name(input.name) = input.name)
        => /\ result.game = "Genshin Impact"
           /\ result.body_type = input.body_type
           /\ result.weapon_type = input.weapon_type
           /\ result.clean_name =
                (IF Find(input.letters, <<"P","l","a","y","e","r","B","o","y">>) # 0 THEN <<"A","e","t","h","e","r">>
                 ELSE IF Find(input.letters, <<"P","l","a","y","e","r","G","i","r","l">>) # 0 THEN <<"L","u","m","i","n","e">>
                 ELSE input.letters)

C16_AetherClassified ==
    /\ lastOp = "identify_model"
    /\ input.name = <<"A","v","a","t","a","r","_","B","o","y","_","S","w","o","r","d","_","A","e","t","h","e","r">>
    /\ result.game = "Genshin Impact"
    /\ result.body_type = <<"B","o","y">>
    /\ result.weapon_type = <<"S","w","o","r","d">>
    /\ result.clean_name = <<"A","e","t","h","e","r">>

\* the identifiers GetGameData has a branch for
RecognisedGames ==
    {"Genshin Impact", "Honkai Star Rail", "Honkai Impact", "NPC", "Wuthering Waves",
     "Zenless Zone Zero"}

\* C27: for each identifier GetGameData has a branch for, the lookup gives one
\* table with the four mappings and RenameBones goes through the joint's name
\* without an error; for any other identifier the lookup gives nothing and
\* RenameBones leaves the name as it was.
C27_RecognisedGamesRename ==
    lastOp = "RenameBones" =>
        IF input.game \in RecognisedGames
        THEN GetGameData(input.game).kind = "dict" /\ ret # "raised"
        ELSE GetGameData(input.game).kind = "None" /\ ret = "None" /\ result = pre

\* ------------------------------------------------------------ settings and placement

\* C17: a pipeline step's behaviour depends only on the settings captured at
\* the start of the convert call, whatever the scene's settings are when the
\* step runs: clean_meshes keeps the EyeStar mesh exactly when the captured
\* keep_star_eye_mesh flag is set
C17_CapturedFlagDecides ==
    (pc = "steps" /\ lastOp = "clean_meshes" /\ "EyeStar" \in input.meshes)
        => ("EyeStar" \in meshes <=> arg.settings.keep_star_eye_mesh)

\* position_bone has just placed the target of a call whose head rules hold key
Placed(key) ==
    /\ lastOp = "position_bone"
    /\ ret = "True"
    /\ "head" \in DOMAIN arg.rules
    /\ key \in DOMAIN arg.rules.head

\* the head of the joint a call's reference key names, and of its target
RefHead(key) == bones[Get(bones, arg.refs[key])].head

TargetHead == bones[Get(bones, arg.target)].head

\* C18: after position_bone has applied head rules with min_offset(axis,
\* reference, value), the target's head is at least reference.head + value on
\* that axis
C18_MinOffsetReached ==
    Placed("min_offset") =>
        LET rule == arg.rules.head.min_offset
            axis == axis_map[rule.axis]
        IN TargetHead[axis] >= RefHead(rule.reference)[axis] + rule.value

\* C19: after the Hips positioning step, Hips.head is strictly higher than the
\* heads of both upper legs
C19_HipsAboveLegs ==
    (Placed("min_offset") /\ arg.target = "Hips") =>
        /\ TargetHead[Z] > RefHead("left")[Z]
        /\ TargetHead[Z] > RefHead("right")[Z]

\* the height the vertical rule between(left, up, 0.33) gives, in hundredths
\* of a unit so that no rounding is involved
ThirdUp == 100 * RefHead("left")[Z] + 33 * (RefHead("up")[Z] - RefHead("left")[Z])

\* C20: with horizontal between(left, right, 0.5) and vertical
\* between(left, up, 0.33) the Hips head lies midway between the upper-leg
\* heads in x and y, and at left.z + (up.z - left.z) * 0.33 in z unless the
\* min_offset clamp has replaced that height
C20_HipsHeadPlaced ==
    (Placed("horizontal") /\ Placed("vertical") /\ arg.target = "Hips") =>
        /\ \A a \in {X, Y} :
              2 * TargetHead[a] \in {RefHead("left")[a] + RefHead("right")[a] - 1,
                                    RefHead("left")[a] + RefHead("right")[a]}
        /\ \/ 100 * TargetHead[Z] \in (ThirdUp - 99)..ThirdUp
           \/ /\ ThirdUp <= 100 * RefHead("right")[Z]
              /\ TargetHead[Z] = RefHead("right")[Z] + arg.rules.head.min_offset.value

\* left.head = (-1, 0, 0), right.head = (1, 0, 0) and up.head = (0, 0, 5) have
\* given hips.head = (0, 0, 1.65)
C20_ExamplePlaced ==
    /\ Placed("horizontal")
    /\ arg.target = "Hips"
    /\ RefHead("left") = <<-10000, 0, 0>>
    /\ RefHead("right") = <<10000, 0, 0>>
    /\ RefHead("up") = <<0, 0, 50000>>
    /\ TargetHead = <<0, 0, 16500>>

====
